---------------------------- MODULE Spec2Model ----------------------------
(***************************************************************************)
(* Model of the Functional Annotation Pipeline integration scripts:        *)
(*   scripts/INTEGRATION/analyze_annotation_results.py  (OverlapAnalyzer)  *)
(*   scripts/INTEGRATION/filter_fantasia_results.py     (ConsensusFilter)  *)
(*   scripts/INTEGRATION/create_excel_outputs.py        (FormatParser)     *)
(*                                                                         *)
(* Each component is a specification of its own over the shared variables: *)
(*   SpecOverlap  calculate_overlaps on a mapping of tool gene sets        *)
(*   SpecFilter   calculate_thresholds and create_consensus_filtering      *)
(*   SpecParse    the five parse() dialects on one input file              *)
(*   SpecTerm     the per-term outputs built from parsed results           *)
(*   SpecGene     the per-gene tables and the annotated gene sets          *)
(*   SpecExcel    filter_excel_file on one per-term table                  *)
(*   SpecFasta    the FASTA readers and the gene-id remapping              *)
(*   SpecRun      one run of the Excel generator over a results root       *)
(*   SpecPipeline Excel generator, FANTASIA filter and analysis in order   *)
(* The variables a specification does not use stay at their Idle value.    *)
(***************************************************************************)
EXTENDS Integers, Sequences, FiniteSets, TLC

VARIABLES
    pc,              \* position of the component's driver
    raised,          \* exception that left the operation, "none" when it returned
    gene_sets,       \* analyze: mapping tool name -> set of annotated genes
    overlaps,        \* analyze: result of calculate_overlaps
    summary_df,      \* filter: the wide summary table (columns, rows)
    thresholds,      \* filter: model column -> Q1 threshold (scaled by 4)
    consensus_vote,  \* filter: the consensus_vote column, one entry per row
    consensus_df,    \* filter: indices of the rows kept by the majority vote
    dialect,         \* excel: which parser class the parser object is
    model_suffix,    \* excel: FantasiaParser.model_suffix
    input_file,      \* excel: the file behind parser.input_file
    results,         \* excel: parser.results
    prev_results,    \* excel: parser.results as it was before the last parse()
    column,          \* excel: the column of the row the cell was read from
    cell,            \* excel: the text of that cell in the input file
    per_term,        \* excel: rows of create_per_term_output
    per_gene,        \* excel: rows of the per-gene table, "none" when no file is written
    annotated,       \* analyze: what count_annotated_genes_* returns for that file
    excel_df,        \* filter: the per-term table filter_excel_file reads
    threshold,       \* filter: the threshold filter_excel_file is called with (scaled by 4)
    filtered_df,     \* filter: filtered_df of filter_excel_file
    fasta,           \* the protein FASTA file (exists, lines)
    protein_to_gene, \* filter: what parse_fasta_for_gene_mapping returns
    genes,           \* analyze: what parse_fasta_file returns
    accession,       \* filter: the accession column of consensus_df
    gene_id,         \* filter: the gene_id column of consensus_df; <<>> without it
    tree,            \* excel: the input files under the results root
    written,         \* excel: the output paths written by one run, in order
    fantasia_tsv,    \* pipeline: the rows of the sample's FANTASIA results file
    excel_dir,       \* pipeline: the files of the Excel directory, name -> table
    task_a,          \* pipeline: the files Task A filtered, with the column used
    fantasia_results \* pipeline: what analyze_fantasia_models returns

overlapVars == <<gene_sets, overlaps>>
filterVars  == <<summary_df, thresholds, consensus_vote, consensus_df>>
parseVars   == <<dialect, model_suffix, input_file, results, prev_results>>
termVars    == <<column, cell, per_term>>
geneVars    == <<per_gene, annotated>>
excelVars   == <<excel_df, threshold, filtered_df>>
fastaVars   == <<fasta, protein_to_gene, genes, accession, gene_id>>
runVars     == <<tree, written, fantasia_tsv, excel_dir, task_a, fantasia_results>>
vars == <<pc, raised, overlapVars, filterVars, parseVars, termVars, geneVars, excelVars,
          fastaVars, runVars>>

Idle == "idle"

OverlapIdle == gene_sets = Idle /\ overlaps = Idle
FilterIdle  == /\ summary_df = Idle /\ thresholds = Idle
               /\ consensus_vote = Idle /\ consensus_df = Idle
ParseIdle   == /\ dialect = Idle /\ model_suffix = Idle /\ input_file = Idle
               /\ results = Idle /\ prev_results = Idle
TermIdle    == column = Idle /\ cell = Idle /\ per_term = Idle
GeneIdle    == per_gene = Idle /\ annotated = Idle
ExcelIdle   == excel_df = Idle /\ threshold = Idle /\ filtered_df = Idle
FastaIdle   == /\ fasta = Idle /\ protein_to_gene = Idle /\ genes = Idle
               /\ accession = Idle /\ gene_id = Idle
TreeIdle    == tree = Idle /\ written = Idle
PipeIdle    == /\ fantasia_tsv = Idle /\ excel_dir = Idle /\ task_a = Idle
               /\ fantasia_results = Idle
RunIdle     == TreeIdle /\ PipeIdle

(***************************************************************************)
(* Python results: a call either returns a value or raises.                *)
(***************************************************************************)
Ok(v)      == [exc |-> "none", value |-> v]
Raise(e)   == [exc |-> e, value |-> {}]

(***************************************************************************)
(*                        OverlapAnalyzer                                  *)
(***************************************************************************)
MaxGenes == 2
Genes == 1..MaxGenes

KOFAM    == "KofamScan"
INTERPRO == "InterProScan"
EGGNOG   == "EggNOG (combined)"
FANTASIA == "FANTASIA (post-filtering)"
ToolNames == {KOFAM, INTERPRO, EGGNOG, FANTASIA}

EmptyMapping == [k \in {} |-> {}]

\* gene_sets.values()
Values(gs) == {gs[k] : k \in DOMAIN gs}

\* set.union(*sets): Python raises TypeError when called with no argument
SetUnionAll(sets) ==
    IF sets = {} THEN Raise("TypeError") ELSE Ok(UNION sets)

\* set.intersection(*sets): raises TypeError when called with no argument
SetIntersectionAll(sets) ==
    IF sets = {} THEN Raise("TypeError")
    ELSE Ok({g \in UNION sets : \A s \in sets : g \in s})

\* all_tools = set.union(*gene_sets.values()) if gene_sets else set()
AllToolsUnguarded(gs) == SetUnionAll(Values(gs))
AllTools(gs) ==
    IF DOMAIN gs # {} THEN SetUnionAll(Values(gs)) ELSE Ok({})

\* if len(gene_sets) > 0: set.intersection(*values) else set()
GenesAllTools(gs) ==
    IF Cardinality(DOMAIN gs) > 0 THEN SetIntersectionAll(Values(gs)) ELSE Ok({})

\* kofam_interpro_eggnog: updated with each of the three sets that is present
Update(acc, gs, k) == IF k \in DOMAIN gs THEN acc \cup gs[k] ELSE acc
KofamInterproOnly(gs) == Update(Update({}, gs, KOFAM), gs, INTERPRO)
KofamInterproEggnog(gs) ==
    Update(Update(Update({}, gs, KOFAM), gs, INTERPRO), gs, EGGNOG)

\* overlap_3tools, only when the three keys are present
Overlap3Tools(gs) ==
    IF KOFAM \in DOMAIN gs /\ INTERPRO \in DOMAIN gs /\ EGGNOG \in DOMAIN gs
    THEN (gs[KOFAM] \cap gs[INTERPRO]) \cap gs[EGGNOG]
    ELSE {}

\* fantasia_unique = FANTASIA (post-filtering) - kofam_interpro_eggnog
FantasiaUnique(gs) ==
    IF FANTASIA \in DOMAIN gs THEN gs[FANTASIA] \ KofamInterproEggnog(gs) ELSE {}

\* every entry of the result is the pair (set, len(set))
Pair(s) == <<s, Cardinality(s)>>

calculate_overlaps(gs) ==
    LET all == AllTools(gs)
        common == GenesAllTools(gs)
    IN  IF all.exc # "none" THEN Raise(all.exc)
        ELSE IF common.exc # "none" THEN Raise(common.exc)
        ELSE Ok([all_tools_combined             |-> Pair(all.value),
                 annotated_by_all               |-> Pair(common.value),
                 kofam_interpro_eggnog_combined |-> Pair(KofamInterproEggnog(gs)),
                 kofam_interpro_eggnog_overlap  |-> Pair(Overlap3Tools(gs)),
                 fantasia_unique                |-> Pair(FantasiaUnique(gs))])

InitOverlap ==
    /\ pc = "gather"
    /\ raised = "none"
    /\ gene_sets = EmptyMapping
    /\ overlaps = "none"
    /\ FilterIdle /\ ParseIdle /\ TermIdle /\ GeneIdle /\ ExcelIdle /\ FastaIdle /\ RunIdle

\* gene_sets[tool] = genes
SetGeneSet(k, s) ==
    /\ pc = "gather"
    /\ k \notin DOMAIN gene_sets
    /\ gene_sets' = [x \in DOMAIN gene_sets \cup {k} |->
                        IF x = k THEN s ELSE gene_sets[x]]
    /\ UNCHANGED <<fastaVars, runVars, geneVars, excelVars, pc, raised, overlaps, filterVars, parseVars, termVars>>

\* overlaps = calculate_overlaps(gene_sets)
CalculateOverlaps ==
    /\ pc = "gather"
    /\ LET r == calculate_overlaps(gene_sets)
       IN  /\ raised' = r.exc
           /\ overlaps' = IF r.exc = "none" THEN r.value ELSE "none"
    /\ pc' = "done"
    /\ UNCHANGED <<fastaVars, runVars, geneVars, excelVars, gene_sets, filterVars, parseVars, termVars>>

NextOverlap ==
    \/ \E k \in ToolNames, s \in SUBSET Genes : SetGeneSet(k, s)
    \/ CalculateOverlaps

SpecOverlap == InitOverlap /\ [][NextOverlap]_vars

Computed == pc = "done" /\ raised = "none"
Has(k) == k \in DOMAIN gene_sets
AllThree == Has(KOFAM) /\ Has(INTERPRO) /\ Has(EGGNOG)

\* C3: when one of the three main tools is absent from the mapping, both the
\* three-tools union and the three-tools intersection are the empty set with
\* size 0 (never a combination of the tools that are present).
C3_ThreeToolsOnlyWhenAllPresent ==
    (pc = "done" /\ ~AllThree) =>
        /\ raised = "none"
        /\ overlaps.kofam_interpro_eggnog_combined = <<{}, 0>>
        /\ overlaps.kofam_interpro_eggnog_overlap = <<{}, 0>>

\* C4: fantasia_unique is a subset of the FANTASIA (post-filtering) set, holds
\* no gene of a KofamScan, InterProScan or EggNOG (combined) set that is
\* present, its count is its size, and it is empty when the key is absent.
C4_FantasiaUnique ==
    pc = "done" =>
        /\ raised = "none"
        /\ LET fu == overlaps.fantasia_unique
           IN  /\ fu[2] = Cardinality(fu[1])
               /\ Has(FANTASIA) => fu[1] \subseteq gene_sets[FANTASIA]
               /\ \A k \in {KOFAM, INTERPRO, EGGNOG} :
                     Has(k) => fu[1] \cap gene_sets[k] = {}
               /\ ~Has(FANTASIA) => fu = <<{}, 0>>

\* C4 witness: a FANTASIA-exclusive gene next to a gene shared with a main tool
\* while another main tool is absent.
C4_Witness ==
    /\ Computed
    /\ Has(FANTASIA) /\ Has(EGGNOG) /\ ~Has(KOFAM)
    /\ gene_sets[EGGNOG] \cap gene_sets[FANTASIA] # {}
    /\ overlaps.fantasia_unique[2] = 1

\* C5: calculate_overlaps of the empty mapping returns without error, and
\* every result is the empty set with count 0.
C5_EmptyMapping ==
    (pc = "done" /\ gene_sets = EmptyMapping) =>
        /\ raised = "none"
        /\ \A f \in {"all_tools_combined", "annotated_by_all",
                     "kofam_interpro_eggnog_combined",
                     "kofam_interpro_eggnog_overlap", "fantasia_unique"} :
              overlaps[f] = <<{}, 0>>

C5_Witness ==
    /\ pc = "done" /\ gene_sets = EmptyMapping /\ raised = "none"
    /\ overlaps.all_tools_combined[2] = 0

(***************************************************************************)
(*                        ConsensusFilter                                  *)
(*  filter_fantasia_results.py: calculate_thresholds and                   *)
(*  create_consensus_filtering, driven as main() drives them.              *)
(***************************************************************************)

\* A cell of the summary table as pandas holds it: a missing value, a text
\* that is no number, or a number.
NaN    == [k |-> "nan"]
Str    == [k |-> "str"]
Num(n) == [k |-> "num", v |-> n]

\* the numbers a score cell is drawn from
ScoreValues == {-1, 0, 2, 6}
Cells == {NaN, Str} \cup {Num(n) : n \in ScoreValues}
\* a table of several columns draws its cells from the numbers and NaN only
\* (a text cell is coerced to NaN before any use)
WideCells == Cells \ {Str}
RowCells(df) == IF Cardinality(df.columns) = 1 THEN Cells ELSE WideCells

\* a table holds at most MaxCells score cells (columns times rows)
MaxCells == 5

\* model_columns, in the order both functions walk them
ModelColumns == << "final_score_ESM_L0", "final_score_Prot-T5_L0",
                   "final_score_Prost-T5_L0", "final_score_Ankh3-Large_L0",
                   "final_score_ESM3c_L0" >>
ModelColumnSet == {ModelColumns[i] : i \in 1..Len(ModelColumns)}

\* the number of models whose vote makes a majority
MajorityVotes == 3

\* a table may take one more row while it stays within MaxCells
HasRoom(df) == Cardinality(df.columns) * (Len(df.rows) + 1) <= MaxCells

\* pd.to_numeric(x, errors='coerce')
ToNumeric(c) == IF c.k = "num" THEN c ELSE NaN

\* pd.notna(x)
NotNa(c) == c.k # "nan"

\* summary_df[col]
Column(df, col) == [i \in 1..Len(df.rows) |-> df.rows[i][col]]

\* scores = summary_df[col].dropna(); scores = pd.to_numeric(scores, 'coerce')
CoercedScores(df, col) ==
    LET kept == SelectSeq(Column(df, col), NotNa)
    IN  [i \in 1..Len(kept) |-> ToNumeric(kept[i])]

\* scores > 0 (False for NaN)
IsPositive(c) == c.k = "num" /\ c.v > 0

\* non_zero_scores = scores[scores > 0], as plain numbers
IsNonZero(c) == c.k = "num" /\ c.v # 0
NonZeroScoresNe(df, col) ==
    LET kept == SelectSeq(CoercedScores(df, col), IsNonZero)
    IN  [i \in 1..Len(kept) |-> kept[i].v]
NonZeroScores(df, col) ==
    LET kept == SelectSeq(CoercedScores(df, col), IsPositive)
    IN  [i \in 1..Len(kept) |-> kept[i].v]

\* sorted(values)
RECURSIVE Insert(_, _)
Insert(x, sorted) ==
    IF sorted = <<>> THEN <<x>>
    ELSE IF x <= Head(sorted) THEN <<x>> \o sorted
    ELSE <<Head(sorted)>> \o Insert(x, Tail(sorted))
RECURSIVE Sorted(_)
Sorted(seq) == IF seq = <<>> THEN <<>> ELSE Insert(Head(seq), Sorted(Tail(seq)))

\* Series.quantile(0.25), linear interpolation, times 4: with h = n - 1 the
\* position is h / 4, so the lower order statistic is h \div 4 and the
\* fraction is (h % 4) / 4.
Quantile25x4(values) ==
    LET srt == Sorted(values)
        h   == Len(srt) - 1
        lo  == h \div 4
        fr  == h % 4
        hi  == IF fr = 0 THEN lo ELSE lo + 1
    IN  4 * srt[lo + 1] + fr * (srt[hi + 1] - srt[lo + 1])

\* the body of the loop of calculate_thresholds for one column that is present
ColumnThreshold(df, col) ==
    LET non_zero_scores == NonZeroScores(df, col)
    IN  IF Len(non_zero_scores) > 0 THEN Quantile25x4(non_zero_scores) ELSE 0

calculate_thresholds(df) ==
    [col \in {c \in ModelColumnSet : c \in df.columns} |-> ColumnThreshold(df, col)]

\* pd.notna(score) and score >= thresholds[col]   (thresholds are times 4)
PassesOrMissing(c, thr) == ToNumeric(c).k = "num" => 4 * ToNumeric(c).v >= thr
PassesStrict(c, thr) == ToNumeric(c).k = "num" /\ 4 * ToNumeric(c).v > thr
Passes(c, thr) == ToNumeric(c).k = "num" /\ 4 * ToNumeric(c).v >= thr

\* for col in model_columns: ... vote_count += 1
RECURSIVE VoteLoop(_, _, _, _, _)
VoteLoop(df, thr, row, i, vote_count) ==
    IF i > Len(ModelColumns) THEN vote_count
    ELSE LET col == ModelColumns[i]
         IN  VoteLoop(df, thr, row, i + 1,
                      IF /\ col \in df.columns
                         /\ col \in DOMAIN thr
                         /\ Passes(row[col], thr[col])
                      THEN vote_count + 1 ELSE vote_count)

\* consensus_votes, one entry per row of summary_df
ConsensusVotes(df, thr) ==
    [i \in 1..Len(df.rows) |-> VoteLoop(df, thr, df.rows[i], 1, 0)]

\* summary_df[summary_df['consensus_vote'] >= 3]: the kept row numbers, in order
RECURSIVE KeepFrom(_, _, _)
KeepFrom(votes, i, least) ==
    IF i > Len(votes) THEN <<>>
    ELSE (IF votes[i] >= least THEN <<i>> ELSE <<>>) \o KeepFrom(votes, i + 1, least)
MajorityRowsStrict(votes) == KeepFrom(votes, 1, MajorityVotes + 1)
MajorityRows(votes) == KeepFrom(votes, 1, MajorityVotes)

InitFilter ==
    /\ pc = "loading"
    /\ raised = "none"
    /\ \E S \in SUBSET ModelColumnSet : summary_df = [columns |-> S, rows |-> <<>>]
    /\ thresholds = "none"
    /\ consensus_vote = "none"
    /\ consensus_df = "none"
    /\ OverlapIdle /\ ParseIdle /\ TermIdle /\ GeneIdle /\ ExcelIdle /\ FastaIdle /\ RunIdle

\* pd.read_csv(args.summary, sep='\t'): the next row of the summary file
ReadRow(row) ==
    /\ pc = "loading"
    /\ summary_df.columns # {}
    /\ HasRoom(summary_df)
    /\ summary_df' = [summary_df EXCEPT !.rows = Append(@, row)]
    /\ UNCHANGED <<fastaVars, runVars, geneVars, excelVars, pc, raised, thresholds, consensus_vote, consensus_df,
                   overlapVars, parseVars, termVars>>

\* main: thresholds = calculate_thresholds(summary_df), the file read to its end
CalculateThresholds ==
    /\ pc = "loading"
    /\ thresholds' = calculate_thresholds(summary_df)
    /\ pc' = "thresholds"
    /\ UNCHANGED <<fastaVars, runVars, geneVars, excelVars, raised, summary_df, consensus_vote, consensus_df,
                   overlapVars, parseVars, termVars>>

\* main: if not thresholds: sys.exit(1)
ExitNoThresholds ==
    /\ pc = "thresholds"
    /\ DOMAIN thresholds = {}
    /\ pc' = "exit"
    /\ UNCHANGED <<fastaVars, runVars, geneVars, excelVars, raised, filterVars, overlapVars, parseVars, termVars>>

\* main: create_consensus_filtering(args.summary, thresholds, ...)
CreateConsensusFiltering ==
    /\ pc = "thresholds"
    /\ DOMAIN thresholds # {}
    /\ consensus_vote' = ConsensusVotes(summary_df, thresholds)
    /\ consensus_df' = MajorityRows(ConsensusVotes(summary_df, thresholds))
    /\ pc' = "done"
    /\ UNCHANGED <<fastaVars, runVars, geneVars, excelVars, raised, summary_df, thresholds, overlapVars, parseVars, termVars>>

NextFilter ==
    \/ \E row \in [summary_df.columns -> RowCells(summary_df)] : ReadRow(row)
    \/ CalculateThresholds
    \/ ExitNoThresholds
    \/ CreateConsensusFiltering

SpecFilter == InitFilter /\ [][NextFilter]_vars

Range(seq) == {seq[i] : i \in 1..Len(seq)}
RowNumbers == 1..Len(summary_df.rows)

\* the model columns that count for row i, said without the loop
QualifyingColumns(i) ==
    {col \in (ModelColumnSet \cap summary_df.columns) \cap DOMAIN thresholds :
        LET c == summary_df.rows[i][col]
        IN  c.k = "num" /\ 4 * c.v >= thresholds[col]}

\* C1: consensus_vote of a row is the number of model columns, present in the
\* table and in the threshold map, whose numeric score is not missing and is
\* >= the model's threshold; it lies in 0..5; the row is in the consensus
\* subset iff its vote is >= 3.
C1_ConsensusVote ==
    pc = "done" =>
        /\ Len(consensus_vote) = Len(summary_df.rows)
        /\ \A i \in RowNumbers :
              /\ consensus_vote[i] = Cardinality(QualifyingColumns(i))
              /\ consensus_vote[i] \in 0..5
              /\ (i \in Range(consensus_df)) <=> (consensus_vote[i] >= 3)

\* C1 witness: a row retained with exactly three votes, one of its scores
\* missing and another a number below its model's threshold.
C1_Witness ==
    /\ pc = "done"
    /\ \E i \in RowNumbers :
          /\ consensus_vote[i] = 3
          /\ i \in Range(consensus_df)
          /\ \E a, b \in summary_df.columns :
                /\ summary_df.rows[i][a] = NaN
                /\ summary_df.rows[i][b].k = "num"
                /\ 4 * summary_df.rows[i][b].v < thresholds[b]

ThresholdsKnown == pc \in {"thresholds", "exit", "done"}

\* the rows of col that hold a strictly positive number
PositiveRows(col) ==
    {i \in RowNumbers : LET c == summary_df.rows[i][col]
                        IN  c.k = "num" /\ c.v > 0}
Score(col, i) == summary_df.rows[i][col].v

\* row a holds the order statistic of rank k (0-based) among the rows P of col
IsOrderStatistic(col, P, a, k) ==
    /\ Cardinality({j \in P : Score(col, j) < Score(col, a)}) <= k
    /\ Cardinality({j \in P : Score(col, j) <= Score(col, a)}) >= k + 1

TAB == "\t"
SP  == " "
Whitespace == {TAB, SP}
Empty == <<>>

\* s.startswith(prefix)
StartsWith(s, prefix) ==
    /\ Len(s) >= Len(prefix)
    /\ SubSeq(s, 1, Len(prefix)) = prefix

\* s[n:]
DropFirst(s, n) == SubSeq(s, n + 1, Len(s))

\* s.lstrip(), s.rstrip(), s.strip()
RECURSIVE LStrip(_)
LStrip(s) ==
    IF s # <<>> /\ Head(s) \in Whitespace THEN LStrip(Tail(s)) ELSE s
RECURSIVE RStrip(_)
RStrip(s) ==
    IF s # <<>> /\ s[Len(s)] \in Whitespace THEN RStrip(SubSeq(s, 1, Len(s) - 1)) ELSE s
Strip(s) == RStrip(LStrip(s))

\* s.lstrip(ch)
RECURSIVE LStripChar(_, _)
LStripChar(s, ch) ==
    IF s # <<>> /\ Head(s) = ch THEN LStripChar(Tail(s), ch) ELSE s

\* sep in s
Contains(s, sep) == \E i \in 1..Len(s) : s[i] = sep

\* s.split(sep): the pieces between the separators, [''] for the empty string
RECURSIVE SplitFrom(_, _, _)
SplitFrom(s, sep, piece) ==
    IF s = <<>> THEN <<piece>>
    ELSE IF Head(s) = sep THEN <<piece>> \o SplitFrom(Tail(s), sep, <<>>)
    ELSE SplitFrom(Tail(s), sep, Append(piece, Head(s)))
Split(s, sep) == SplitFrom(s, sep, <<>>)

\* s.split(sep, 1) on a string that holds sep: (before, after) the first sep
LastIndex(s, sep) == CHOOSE i \in 1..Len(s) : s[i] = sep /\ \A j \in (i + 1)..Len(s) : s[j] # sep
SplitAtLast(s, sep) ==
    LET i == LastIndex(s, sep)
    IN  <<SubSeq(s, 1, i - 1), SubSeq(s, i + 1, Len(s))>>
FirstIndex(s, sep) == CHOOSE i \in 1..Len(s) : s[i] = sep /\ \A j \in 1..(i - 1) : s[j] # sep
SplitOnce(s, sep) ==
    LET i == FirstIndex(s, sep)
    IN  <<SubSeq(s, 1, i - 1), SubSeq(s, i + 1, Len(s))>>

\* sep.join(pieces)
RECURSIVE Join(_, _)
Join(pieces, sep) ==
    IF pieces = <<>> THEN <<>>
    ELSE IF Len(pieces) = 1 THEN pieces[1]
    ELSE pieces[1] \o <<sep>> \o Join(Tail(pieces), sep)

\* a if a else b     (Python's `a or b` on strings)
OrElse(a, b) == IF a # <<>> THEN a ELSE b

\* value if value != '-' else ''
DASH == <<"-">>
DashToEmpty(value) == IF value # DASH THEN value ELSE <<>>

\* AnnotationParser.KEGG_PREFIX
KEGG_PREFIX == <<"ko:">>

\* the parser classes
KofamScanParser    == "KofamScanParser"
InterProScanParser == "InterProScanParser"
EggNOGParser       == "EggNOGParser"
EggNOG7Parser      == "EggNOG7Parser"
FantasiaParser     == "FantasiaParser"
None == "None"

(***************************************************************************)
(*                        Per-term outputs                                 *)
(*  EggNOGParser.create_per_term_output, EggNOG7Parser.create_per_term_    *)
(*  output and the row emission of FantasiaParser.parse.                   *)
(***************************************************************************)

\* if kegg_term.startswith('ko:'): kegg_term = kegg_term[3:]
StripKo(term) ==
    IF StartsWith(term, KEGG_PREFIX) THEN DropFirst(term, Len(KEGG_PREFIX)) ELSE term

\* EggNOG v5, GO: for go_term in result['GOs'].split(','): strip, keep if non-empty
RECURSIVE V5GoRows(_, _)
V5GoRows(gene, items) ==
    IF items = <<>> THEN <<>>
    ELSE LET go_term == Strip(Head(items))
         IN  (IF go_term # <<>>
              THEN <<[gene |-> gene, term_type |-> "GO", term |-> go_term]>>
              ELSE <<>>) \o V5GoRows(gene, Tail(items))

\* EggNOG v5, KEGG: split(','), strip, remove 'ko:', keep if non-empty
RECURSIVE V5KeggRows(_, _)
V5KeggRows(gene, items) ==
    IF items = <<>> THEN <<>>
    ELSE LET kegg_term == StripKo(Strip(Head(items)))
         IN  (IF kegg_term # <<>>
              THEN <<[gene |-> gene, term_type |-> "KEGG", term |-> kegg_term]>>
              ELSE <<>>) \o V5KeggRows(gene, Tail(items))

\* the rows one result of EggNOGParser gives
V5ResultRows(result) ==
    (IF result.GOs # <<>>
     THEN V5GoRows(result.gene, Split(result.GOs, ",")) ELSE <<>>)
    \o
    (IF result.KEGG_ko # <<>>
     THEN V5KeggRows(result.gene, Split(result.KEGG_ko, ",")) ELSE <<>>)

\* EggNOG v7, GO: items split on ';', each TERM|SCORE or TERM
RECURSIVE V7GoRows(_, _)
V7GoRows(gene, items) ==
    IF items = <<>> THEN <<>>
    ELSE LET go_item == Strip(Head(items))
         IN  (IF go_item # <<>> /\ Contains(go_item, "|")
              THEN LET ts == SplitOnce(go_item, "|")
                   IN  <<[gene |-> gene, term_type |-> "GO",
                          term |-> Strip(ts[1]), score |-> Strip(ts[2])]>>
              ELSE IF go_item # <<>>
              THEN <<[gene |-> gene, term_type |-> "GO",
                      term |-> go_item, score |-> <<>>]>>
              ELSE <<>>) \o V7GoRows(gene, Tail(items))

\* EggNOG v7, KEGG: as GO, with the 'ko:' prefix removed from the term
RECURSIVE V7KeggRows(_, _)
V7KeggRows(gene, items) ==
    IF items = <<>> THEN <<>>
    ELSE LET kegg_item == Strip(Head(items))
         IN  (IF kegg_item # <<>> /\ Contains(kegg_item, "|")
              THEN LET ts == SplitOnce(kegg_item, "|")
                   IN  <<[gene |-> gene, term_type |-> "KEGG",
                          term |-> StripKo(Strip(ts[1])), score |-> Strip(ts[2])]>>
              ELSE IF kegg_item # <<>>
              THEN <<[gene |-> gene, term_type |-> "KEGG",
                      term |-> StripKo(Strip(kegg_item)), score |-> <<>>]>>
              ELSE <<>>) \o V7KeggRows(gene, Tail(items))

\* the rows one result of EggNOG7Parser gives
V7ResultRows(result) ==
    (IF result.GOs # <<>>
     THEN V7GoRows(result.gene, Split(result.GOs, ";")) ELSE <<>>)
    \o
    (IF result.KEGGs # <<>>
     THEN V7KeggRows(result.gene, Split(result.KEGGs, ";")) ELSE <<>>)

\* for result in self.results: rows.append(...)
RECURSIVE V5PerTerm(_)
V5PerTerm(res) ==
    IF res = <<>> THEN <<>> ELSE V5ResultRows(Head(res)) \o V5PerTerm(Tail(res))
RECURSIVE V7PerTerm(_)
V7PerTerm(res) ==
    IF res = <<>> THEN <<>> ELSE V7ResultRows(Head(res)) \o V7PerTerm(Tail(res))

\* FantasiaParser.parse, from the row dictionary on: skip a row without a GO
\* term or, when a model is asked for, without a score for it
FantasiaRowResultsAnyScore(gene_name, go_id, term_count, suffix, final_score) ==
    IF go_id = <<>> \/ go_id = DASH THEN <<>>
    ELSE <<[gene |-> gene_name, GO |-> go_id,
            term_count |-> term_count, final_score |-> final_score]>>
FantasiaRowResults(gene_name, go_id, term_count, suffix, final_score) ==
    IF go_id = <<>> \/ go_id = DASH THEN <<>>
    ELSE IF suffix # None /\ (final_score = <<>> \/ Strip(final_score) = <<>>) THEN <<>>
    ELSE <<[gene |-> gene_name, GO |-> go_id,
            term_count |-> term_count, final_score |-> final_score]>>

\* the tokens a GO or KEGG cell is drawn from, and its greatest length
TermAlphabet == {"ko:", "K00001", "-", SP, ",", ";", "|"}
MaxCellLen == 4

GENE1 == <<"g1">>

InitTerm ==
    /\ pc = "cell"
    /\ raised = "none"
    /\ dialect \in {EggNOGParser, EggNOG7Parser, FantasiaParser}
    /\ column \in IF dialect = FantasiaParser THEN {"GO"} ELSE {"GO", "KEGG"}
    /\ cell = <<>>
    /\ model_suffix = None
    /\ input_file = Idle
    /\ results = <<>>
    /\ prev_results = Idle
    /\ per_term = "none"
    /\ OverlapIdle /\ FilterIdle /\ GeneIdle /\ ExcelIdle /\ FastaIdle /\ RunIdle

\* the input file holds one more token in the cell
TypeToken(t) ==
    /\ pc = "cell"
    /\ Len(cell) < MaxCellLen
    /\ cell' = Append(cell, t)
    /\ UNCHANGED <<fastaVars, runVars, geneVars, excelVars, pc, raised, column, per_term, parseVars, overlapVars, filterVars>>

\* EggNOGParser.parse: self.results.append({... 'GOs': ..., 'KEGG_ko': ...})
StoreEggNOG ==
    /\ pc = "cell" /\ dialect = EggNOGParser
    /\ results' = <<[gene    |-> GENE1,
                     GOs     |-> IF column = "GO" THEN DashToEmpty(cell) ELSE <<>>,
                     KEGG_ko |-> IF column = "KEGG" THEN DashToEmpty(cell) ELSE <<>>]>>
    /\ pc' = "parsed"
    /\ UNCHANGED <<fastaVars, runVars, geneVars, excelVars, raised, dialect, model_suffix, input_file, prev_results,
                   termVars, overlapVars, filterVars>>

\* EggNOG7Parser.parse: self.results.append({... 'GOs': ..., 'KEGGs': ...})
StoreEggNOG7 ==
    /\ pc = "cell" /\ dialect = EggNOG7Parser
    /\ results' = <<[gene  |-> GENE1,
                     GOs   |-> IF column = "GO" THEN DashToEmpty(cell) ELSE <<>>,
                     KEGGs |-> IF column = "KEGG" THEN DashToEmpty(cell) ELSE <<>>]>>
    /\ pc' = "parsed"
    /\ UNCHANGED <<fastaVars, runVars, geneVars, excelVars, raised, dialect, model_suffix, input_file, prev_results,
                   termVars, overlapVars, filterVars>>

\* FantasiaParser.parse: the row whose go_id is the cell
StoreFantasia ==
    /\ pc = "cell" /\ dialect = FantasiaParser
    /\ results' = FantasiaRowResults(GENE1, cell, <<>>, model_suffix, <<>>)
    /\ pc' = "parsed"
    /\ UNCHANGED <<fastaVars, runVars, geneVars, excelVars, raised, dialect, model_suffix, input_file, prev_results,
                   termVars, overlapVars, filterVars>>

\* per_term_df = parser.create_per_term_output()   (EggNOG v5)
PerTermEggNOG ==
    /\ pc = "parsed" /\ dialect = EggNOGParser
    /\ per_term' = V5PerTerm(results)
    /\ pc' = "done"
    /\ UNCHANGED <<fastaVars, runVars, geneVars, excelVars, raised, column, cell, parseVars, overlapVars, filterVars>>

\* per_term_df = parser.create_per_term_output()   (EggNOG v7)
PerTermEggNOG7 ==
    /\ pc = "parsed" /\ dialect = EggNOG7Parser
    /\ per_term' = V7PerTerm(results)
    /\ pc' = "done"
    /\ UNCHANGED <<fastaVars, runVars, geneVars, excelVars, raised, column, cell, parseVars, overlapVars, filterVars>>

\* parser.to_dataframe(): the FANTASIA per-term table is results itself,
\* its GO column holding the term
PerTermFantasia ==
    /\ pc = "parsed" /\ dialect = FantasiaParser
    /\ per_term' = [i \in 1..Len(results) |->
                      [gene |-> results[i].gene, term_type |-> "GO",
                       term |-> results[i].GO, score |-> results[i].final_score]]
    /\ pc' = "done"
    /\ UNCHANGED <<fastaVars, runVars, geneVars, excelVars, raised, column, cell, parseVars, overlapVars, filterVars>>

NextTerm ==
    \/ \E t \in TermAlphabet : TypeToken(t)
    \/ StoreEggNOG
    \/ StoreEggNOG7
    \/ StoreFantasia
    \/ PerTermEggNOG
    \/ PerTermEggNOG7
    \/ PerTermFantasia

SpecTerm == InitTerm /\ [][NextTerm]_vars

PerTermRows == {per_term[i] : i \in 1..Len(per_term)}

\* C9: in the EggNOG v5 and v7 per-term outputs the KEGG normalisation leaves
\* no `ko:` prefix on any emitted term, for every input cell: applying it
\* again to an emitted term changes nothing.
C9_KeggPrefixRemoved ==
    (pc = "done" /\ dialect \in {EggNOGParser, EggNOG7Parser}) =>
        \A r \in PerTermRows :
            r.term_type = "KEGG" =>
                /\ ~StartsWith(r.term, KEGG_PREFIX)
                /\ StripKo(r.term) = r.term

\* C10: every record of the per-term outputs of EggNOG v5, EggNOG v7 and
\* FANTASIA has a non-empty gene and a term that is not empty, not
\* all-whitespace and not the placeholder `-`.
C10_NoPlaceholderTerm ==
    pc = "done" =>
        \A r \in PerTermRows :
            /\ r.gene # <<>>
            /\ r.term # <<>>
            /\ Strip(r.term) # <<>>
            /\ r.term # DASH

\* the cell as EggNOG7Parser.parse stored it, its ';'-separated items that
\* are not blank, and the text of an item before and after its first '|'
StoredCell == IF column = "GO" THEN results[1].GOs ELSE results[1].KEGGs
NonBlankItems == SelectSeq(Split(StoredCell, ";"), LAMBDA it : Strip(it) # <<>>)
BeforeBar(it) == Strip(SubSeq(it, 1, FirstIndex(it, "|") - 1))
AfterBar(it)  == Strip(SubSeq(it, FirstIndex(it, "|") + 1, Len(it)))

\* the term of a record is the text, for KEGG without its 'ko:' prefix
IsTermOf(term, text) ==
    IF column = "KEGG" /\ StartsWith(text, KEGG_PREFIX)
    THEN KEGG_PREFIX \o term = text
    ELSE term = text

\* C16: in the EggNOG v7 per-term output a GO or KEGG cell of k non-blank
\* ';'-separated items yields exactly k records of that gene, in cell order;
\* for an item TERM|SCORE the term is the text before the first '|' and the
\* score the text after it (an item without '|' has the empty score), and a
\* KEGG term has the prefix 'ko:' removed.
C16_EggNOG7PerTerm ==
    (pc = "done" /\ dialect = EggNOG7Parser) =>
        /\ Len(per_term) = Len(NonBlankItems)
        /\ \A i \in 1..Len(per_term) :
              LET it == Strip(NonBlankItems[i])
                  r  == per_term[i]
              IN  /\ r.gene = GENE1
                  /\ r.term_type = column
                  /\ IF Contains(it, "|")
                     THEN IsTermOf(r.term, BeforeBar(it)) /\ r.score = AfterBar(it)
                     ELSE IsTermOf(r.term, it) /\ r.score = <<>>

\* C16 witness: the KEGG cell 'ko:K00001;K00001' yields two KEGG records, the
\* prefix removed from the first.
C16_Witness ==
    /\ pc = "done" /\ dialect = EggNOG7Parser /\ column = "KEGG"
    /\ cell = <<"ko:", "K00001", ";", "K00001">>
    /\ Len(per_term) = 2
    /\ per_term[1].term = <<"K00001">>
    /\ per_term[2].term = <<"K00001">>

(***************************************************************************)
(*                        FormatParser                                     *)
(*  The parse() method of the five parser classes, line by line.           *)
(***************************************************************************)

\* header_line = None
NoHeader == <<>>

\* parts[i] if len(parts) > i else ""     (i counts from 0)
Field(parts, i) == IF Len(parts) > i THEN parts[i + 1] ELSE <<>>

\* dict(zip(header_line, parts)).get(name, ''): the last column named so
Get(header, parts, name) ==
    LET n   == IF Len(header) < Len(parts) THEN Len(header) ELSE Len(parts)
        hit == {i \in 1..n : header[i] = name}
    IN  IF hit = {} THEN <<>>
        ELSE parts[CHOOSE i \in hit : \A j \in hit : j <= i]

IsComment(line) == StartsWith(line, <<"#">>)
IsQueryHeader(line) == StartsWith(line, <<"#", "query">>)
Parts(line) == Split(Strip(line), TAB)

\* KofamScanParser.parse, one line
KofamStep(line, res) ==
    IF IsComment(line) \/ Strip(line) = <<>> THEN res
    ELSE LET parts == Parts(line)
             gene_name == IF Len(parts) >= 1 THEN parts[1] ELSE <<>>
         IN  IF Len(parts) >= 2
             THEN Append(res, [gene_name |-> gene_name, KEGG |-> parts[2]])
             ELSE Append(res, [gene_name |-> gene_name, KEGG |-> <<>>])

RECURSIVE KofamLoop(_, _)
KofamLoop(ls, res) ==
    IF ls = <<>> THEN res ELSE KofamLoop(Tail(ls), KofamStep(Head(ls), res))

\* InterProScanParser.parse: the least number of columns of a row
InterProMinColumns == 4
InterProTooShort(parts) == Len(parts) < InterProMinColumns

\* InterProScanParser.parse, one line
InterProStep(line, res) ==
    IF IsComment(line) THEN res
    ELSE LET parts == Parts(line)
         IN  IF InterProTooShort(parts) THEN res
             ELSE Append(res, [gene                 |-> Field(parts, 0),
                               analysis             |-> Field(parts, 3),
                               score                |-> Field(parts, 8),
                               InterPro_accession   |-> Field(parts, 11),
                               InterPro_description |-> Field(parts, 12),
                               GO                   |-> Field(parts, 13),
                               Pathways             |-> Field(parts, 14)])

RECURSIVE InterProLoop(_, _)
InterProLoop(ls, res) ==
    IF ls = <<>> THEN res ELSE InterProLoop(Tail(ls), InterProStep(Head(ls), res))

\* header_line = line.strip().lstrip('#').split('\t')
QueryHeader(line) == Split(LStripChar(Strip(line), "#"), TAB)

\* the first #query line kept as the header for the whole file
EggNOGStepFirstHeader(line, st) ==
    IF IsComment(line)
    THEN IF IsQueryHeader(line) /\ st.header = NoHeader THEN [st EXCEPT !.header = QueryHeader(line)] ELSE st
    ELSE LET parts == Parts(line)
             h == st.header
         IN  IF h = NoHeader \/ Len(parts) # Len(h) THEN st
             ELSE [st EXCEPT !.results = Append(@,
                    [gene          |-> Get(h, parts, <<"query">>),
                     Description   |-> DashToEmpty(OrElse(Get(h, parts, <<"Description">>),
                                                          Get(h, parts, <<"eggNOG_desc">>))),
                     GOs           |-> DashToEmpty(OrElse(Get(h, parts, <<"GOs">>),
                                                          Get(h, parts, <<"GO_terms">>))),
                     KEGG_ko       |-> DashToEmpty(OrElse(Get(h, parts, <<"KEGG_ko">>),
                                                          Get(h, parts, <<"KEGG_KO">>))),
                     KEGG_Pathway  |-> DashToEmpty(OrElse(Get(h, parts, <<"KEGG_Pathway">>),
                                                          Get(h, parts, <<"KEGG_pathway">>))),
                     KEGG_Reaction |-> DashToEmpty(OrElse(Get(h, parts, <<"KEGG_Reaction">>),
                                                          Get(h, parts, <<"KEGG_reaction">>))),
                     KEGG_rclass   |-> DashToEmpty(Get(h, parts, <<"KEGG_rclass">>)),
                     PFAM          |-> DashToEmpty(OrElse(Get(h, parts, <<"PFAMs">>),
                                                          Get(h, parts, <<"PFAM">>)))])]

\* EggNOGParser.parse, one line; st = [header, results]
EggNOGStep(line, st) ==
    IF IsComment(line)
    THEN IF IsQueryHeader(line) THEN [st EXCEPT !.header = QueryHeader(line)] ELSE st
    ELSE LET parts == Parts(line)
             h == st.header
         IN  IF h = NoHeader \/ Len(parts) # Len(h) THEN st
             ELSE [st EXCEPT !.results = Append(@,
                    [gene          |-> Get(h, parts, <<"query">>),
                     Description   |-> DashToEmpty(OrElse(Get(h, parts, <<"Description">>),
                                                          Get(h, parts, <<"eggNOG_desc">>))),
                     GOs           |-> DashToEmpty(OrElse(Get(h, parts, <<"GOs">>),
                                                          Get(h, parts, <<"GO_terms">>))),
                     KEGG_ko       |-> DashToEmpty(OrElse(Get(h, parts, <<"KEGG_ko">>),
                                                          Get(h, parts, <<"KEGG_KO">>))),
                     KEGG_Pathway  |-> DashToEmpty(OrElse(Get(h, parts, <<"KEGG_Pathway">>),
                                                          Get(h, parts, <<"KEGG_pathway">>))),
                     KEGG_Reaction |-> DashToEmpty(OrElse(Get(h, parts, <<"KEGG_Reaction">>),
                                                          Get(h, parts, <<"KEGG_reaction">>))),
                     KEGG_rclass   |-> DashToEmpty(Get(h, parts, <<"KEGG_rclass">>)),
                     PFAM          |-> DashToEmpty(OrElse(Get(h, parts, <<"PFAMs">>),
                                                          Get(h, parts, <<"PFAM">>)))])]

RECURSIVE EggNOGLoop(_, _)
EggNOGLoop(ls, st) ==
    IF ls = <<>> THEN st ELSE EggNOGLoop(Tail(ls), EggNOGStep(Head(ls), st))

\* EggNOG7Parser.parse: the number of columns of the positional layout
PositionalColumns == 15

\* the positional layout asked of rows longer than its columns only
EggNOG7StepLongRows(line, st) ==
    IF IsComment(line)
    THEN IF IsQueryHeader(line) THEN [st EXCEPT !.header = QueryHeader(line)] ELSE st
    ELSE LET parts == Parts(line)
             h == st.header
             Rec(g, p, k, go) == [gene |-> g, eggnog_protein_ID |-> DashToEmpty(p),
                                  GOs |-> DashToEmpty(go), KEGGs |-> DashToEmpty(k)]
         IN  IF Len(parts) < 2 THEN st
             ELSE IF Len(parts) > PositionalColumns
             THEN [st EXCEPT !.results = Append(@,
                     Rec(parts[1], parts[2], Field(parts, 12), Field(parts, 14)))]
             ELSE IF h # NoHeader /\ Len(parts) = Len(h)
             THEN [st EXCEPT !.results = Append(@,
                     Rec(Get(h, parts, <<"query">>),
                         Get(h, parts, <<"seed_ortholog">>),
                         OrElse(Get(h, parts, <<"KEGG_ko">>), Get(h, parts, <<"KEGG_KO">>)),
                         OrElse(Get(h, parts, <<"GOs">>), Get(h, parts, <<"GO">>))))]
             ELSE st

\* EggNOG7Parser.parse, one line; st = [header, results]
EggNOG7Step(line, st) ==
    IF IsComment(line)
    THEN IF IsQueryHeader(line) THEN [st EXCEPT !.header = QueryHeader(line)] ELSE st
    ELSE LET parts == Parts(line)
             h == st.header
             Rec(g, p, k, go) == [gene |-> g, eggnog_protein_ID |-> DashToEmpty(p),
                                  GOs |-> DashToEmpty(go), KEGGs |-> DashToEmpty(k)]
         IN  IF Len(parts) < 2 THEN st
             ELSE IF Len(parts) >= PositionalColumns
             THEN [st EXCEPT !.results = Append(@,
                     Rec(parts[1], parts[2], Field(parts, 12), Field(parts, 14)))]
             ELSE IF h # NoHeader /\ Len(parts) = Len(h)
             THEN [st EXCEPT !.results = Append(@,
                     Rec(Get(h, parts, <<"query">>),
                         Get(h, parts, <<"seed_ortholog">>),
                         OrElse(Get(h, parts, <<"KEGG_ko">>), Get(h, parts, <<"KEGG_KO">>)),
                         OrElse(Get(h, parts, <<"GOs">>), Get(h, parts, <<"GO">>))))]
             ELSE st

RECURSIVE EggNOG7Loop(_, _)
EggNOG7Loop(ls, st) ==
    IF ls = <<>> THEN st ELSE EggNOG7Loop(Tail(ls), EggNOG7Step(Head(ls), st))

\* required_cols = ['accession', 'go_id']
RequiredCols == {<<"accession">>, <<"go_id">>}
HasRequired(header) ==
    \A col \in RequiredCols : \E i \in 1..Len(header) : header[i] = col

\* f'final_score_{self.model_suffix}'
ScoreCol(suffix) == <<"final_score_", suffix>>

\* a row whose length differs from the header's: `continue`
FantasiaOnMismatch(st) == st

\* the header taken without validation of its columns
FantasiaStepAnyHeader(line, suffix, st) ==
    IF IsComment(line) THEN st
    ELSE IF st.header = NoHeader
    THEN LET header_line == Parts(line)
         IN  IF FALSE
             THEN [st EXCEPT !.header = header_line, !.stop = TRUE]
             ELSE [st EXCEPT !.header = header_line]
    ELSE LET parts == Parts(line)
             h == st.header
         IN  IF Len(parts) # Len(h) THEN FantasiaOnMismatch(st)
             ELSE [st EXCEPT !.results = @ \o
                     FantasiaRowResults(
                         Get(h, parts, <<"accession">>),
                         Get(h, parts, <<"go_id">>),
                         Get(h, parts, <<"term_count">>),
                         suffix,
                         IF suffix # None THEN Get(h, parts, ScoreCol(suffix)) ELSE <<>>)]

\* FantasiaParser.parse, one line; st = [header, results, stop]
FantasiaStep(line, suffix, st) ==
    IF IsComment(line) THEN st
    ELSE IF st.header = NoHeader
    THEN LET header_line == Parts(line)
         IN  IF ~HasRequired(header_line)
             THEN [st EXCEPT !.header = header_line, !.stop = TRUE]
             ELSE [st EXCEPT !.header = header_line]
    ELSE LET parts == Parts(line)
             h == st.header
         IN  IF Len(parts) # Len(h) THEN FantasiaOnMismatch(st)
             ELSE [st EXCEPT !.results = @ \o
                     FantasiaRowResults(
                         Get(h, parts, <<"accession">>),
                         Get(h, parts, <<"go_id">>),
                         Get(h, parts, <<"term_count">>),
                         suffix,
                         IF suffix # None THEN Get(h, parts, ScoreCol(suffix)) ELSE <<>>)]

RECURSIVE FantasiaLoop(_, _, _)
FantasiaLoop(ls, suffix, st) ==
    IF ls = <<>> \/ st.stop THEN st
    ELSE FantasiaLoop(Tail(ls), suffix, FantasiaStep(Head(ls), suffix, st))

\* the results parse() leaves for a readable text of the dialect
ParseText(d, suffix, ls) ==
    CASE d = KofamScanParser    -> KofamLoop(ls, <<>>)
      [] d = InterProScanParser -> InterProLoop(ls, <<>>)
      [] d = EggNOGParser       -> EggNOGLoop(ls, [header |-> NoHeader, results |-> <<>>]).results
      [] d = EggNOG7Parser      -> EggNOG7Loop(ls, [header |-> NoHeader, results |-> <<>>]).results
      [] d = FantasiaParser     ->
            FantasiaLoop(ls, suffix,
                         [header |-> NoHeader, results |-> <<>>, stop |-> FALSE]).results

\* self.results = [] ; if not os.path.exists(self.input_file): return
KeptResults(old) == old
MissingFileResults(old) == <<>>

\* What opening and reading the file gives.  A file is [exists, gzname (its
\* name ends with .gz), gzdata (its bytes are a gzip stream), lines (its
\* text)].  gzip.open on bytes that are no gzip stream raises BadGzipFile at
\* the first read, unless the file is empty; open() on a gzip stream decodes
\* bytes that are no text: UnicodeDecodeError under UTF-8, lines without any
\* header under a single-byte locale encoding.
ParseOutcomes(d, suffix, file, old) ==
    IF ~file.exists THEN {Ok(MissingFileResults(old))}
    ELSE LET text   == {Ok(ParseText(d, suffix, file.lines))}
             asGzip == IF file.gzdata \/ file.lines = <<>> THEN text
                       ELSE {[exc |-> "BadGzipFile", value |-> <<>>]}
             asText == IF ~file.gzdata THEN text
                       ELSE {[exc |-> "UnicodeDecodeError", value |-> <<>>], Ok(<<>>)}
         IN  CASE d = EggNOG7Parser -> asGzip
               [] d = EggNOGParser  -> IF file.gzname THEN asGzip ELSE asText
               [] OTHER             -> asText

(***************************************************************************)
(*  Input files: the lines a file of each dialect is written from.         *)
(***************************************************************************)
MaxLines == 3

GENE2 == <<"g2">>
X     == <<"x">>
GO1   == <<"GO:0000001">>
K1    == <<"K00001">>
ESM   == "ESM_L0"
PROT  == "Prot-T5_L0"
ModelSuffixes == {None, ESM, PROT}

\* one line of a tab-separated file
Row(fields) == Join(fields, TAB)
CommentLine == <<"#", "x">>
BlankLine   == <<>>

KofamLines ==
    { CommentLine, BlankLine, GENE2,
      Row(<<GENE1, K1>>), Row(<<GENE1, K1, X>>) }

InterProRow(gene, go, pathways) ==
    Row(<<gene, X, X, <<"Pfam">>, X, X, X, X, <<"1e-5">>, X, X,
          <<"IPR000001">>, <<"desc">>, go, pathways>>)
InterProLines ==
    { CommentLine, BlankLine,
      Row(<<GENE1, X, X>>),
      Row(<<GENE1, X, X, <<"Pfam">>>>),
      Row(<<GENE2, X, X>>) \o <<TAB>>,
      InterProRow(GENE2, GO1, <<"KEGG:00010">>),
      InterProRow(GENE1, DASH, <<>>) }

QueryHeaderLine(names) == <<"#">> \o Row(names)
EggNOGLines ==
    { <<"#", "#", SP, "x">>,
      QueryHeaderLine(<<(<<"query">>), <<"GOs">>, <<"KEGG_ko">>>>),
      QueryHeaderLine(<<(<<"query">>), <<"GO_terms">>>>),
      Row(<<GENE1, GO1, <<"ko:", "K00001">>>>),
      Row(<<GENE2, DASH, DASH>>),
      Row(<<GENE1, GO1>>),
      Row(<<GENE2, GO1>>) \o <<TAB>>,
      GENE2 }

EggNOG7Row(gene, protein, kegg, go) ==
    Row(<<gene, protein, X, X, X, X, X, X, X, X, X, X, kegg, X, go>>)
EggNOG7Lines ==
    { CommentLine,
      QueryHeaderLine(<<(<<"query">>), <<"seed_ortholog">>, <<"KEGG_ko">>>>),
      EggNOG7Row(GENE1, <<"p1">>, <<"ko:", "K00001", "|", "5">>, <<"GO:0000001", "|", "7">>),
      EggNOG7Row(GENE2, DASH, DASH, DASH),
      Row(<<GENE1, <<"p1">>, <<"ko:", "K00001", "|", "5">>>>),
      Row(<<GENE2, DASH>>),
      GENE2 }

FantasiaHeader ==
    Row(<<(<<"accession">>), <<"go_id">>, <<"term_count">>, ScoreCol(ESM), ScoreCol(PROT)>>)
FantasiaLines ==
    { CommentLine,
      FantasiaHeader,
      Row(<<(<<"accession">>), <<"term_count">>>>),
      Row(<<(<<"go_id">>), <<"term_count">>>>),
      Row(<<GENE1, GO1, <<"3">>, <<"0.9">>, <<"0.8">>>>),
      Row(<<GENE1, GO1, <<"3">>, <<>>, <<"0.8">>>>),
      Row(<<GENE2, GO1, <<"3">>, <<"0.9">>, <<>>>>),
      Row(<<GENE2, DASH, <<"3">>, <<"0.9">>, <<"0.8">>>>),
      Row(<<GENE2, GO1>>),
      Row(<<GENE2, GO1, <<"3">>, <<"0.9">>, <<"0.8">>>>) \o <<TAB>> }

Dialects == {KofamScanParser, InterProScanParser, EggNOGParser, EggNOG7Parser, FantasiaParser}
GzipDialects == {EggNOGParser, EggNOG7Parser}

LinesOf(d) ==
    CASE d = KofamScanParser    -> KofamLines
      [] d = InterProScanParser -> InterProLines
      [] d = EggNOGParser       -> EggNOGLines
      [] d = EggNOG7Parser      -> EggNOG7Lines
      [] d = FantasiaParser     -> FantasiaLines

\* a parser object on a new, empty file.  EggNOG files come with or without
\* the .gz name and as gzip streams or plain text; EggNOG v7 files are found
\* by the pattern *.eggnog.tsv.gz
InitParse ==
    /\ pc = "writing"
    /\ raised = "none"
    /\ dialect \in Dialects
    /\ model_suffix \in IF dialect = FantasiaParser THEN ModelSuffixes ELSE {None}
    /\ input_file \in [exists : {TRUE},
                       gzname : IF dialect = EggNOGParser THEN BOOLEAN
                                ELSE {dialect = EggNOG7Parser},
                       gzdata : IF dialect \in GzipDialects THEN BOOLEAN ELSE {FALSE},
                       lines  : {<<>>}]
    /\ results = <<>>
    /\ prev_results = <<>>
    /\ OverlapIdle /\ FilterIdle /\ TermIdle /\ GeneIdle /\ ExcelIdle /\ FastaIdle /\ RunIdle

\* the tool writes one more line to the file
AppendLine(line) ==
    /\ pc = "writing"
    /\ Len(input_file.lines) < MaxLines
    /\ input_file' = [input_file EXCEPT !.lines = Append(@, line)]
    /\ UNCHANGED <<fastaVars, runVars, geneVars, excelVars, pc, raised, dialect, model_suffix, results, prev_results,
                   overlapVars, filterVars, termVars>>

\* the file is deleted
RemoveFile ==
    /\ pc \in {"writing", "parsed"}
    /\ input_file.exists
    /\ input_file' = [input_file EXCEPT !.exists = FALSE]
    /\ pc' = "removed"
    /\ UNCHANGED <<fastaVars, runVars, geneVars, excelVars, raised, dialect, model_suffix, results, prev_results,
                   overlapVars, filterVars, termVars>>

\* parser.parse(): self.results and what leaves the call
Parse(d) ==
    /\ pc \in {"writing", "removed"}
    /\ \E o \in ParseOutcomes(d, model_suffix, input_file, results) :
          /\ results' = o.value
          /\ raised' = o.exc
          /\ pc' = IF o.exc = "none" THEN "parsed" ELSE "raised"
    /\ prev_results' = results
    /\ UNCHANGED <<fastaVars, runVars, geneVars, excelVars, dialect, model_suffix, input_file, overlapVars, filterVars, termVars>>

ParseKofamScan ==
    /\ dialect = KofamScanParser
    /\ Parse(KofamScanParser)
ParseInterProScan ==
    /\ dialect = InterProScanParser
    /\ Parse(InterProScanParser)
ParseEggNOG ==
    /\ dialect = EggNOGParser
    /\ Parse(EggNOGParser)
ParseEggNOG7 ==
    /\ dialect = EggNOG7Parser
    /\ Parse(EggNOG7Parser)
ParseFantasia ==
    /\ dialect = FantasiaParser
    /\ Parse(FantasiaParser)

NextParse ==
    \/ \E line \in LinesOf(dialect) : AppendLine(line)
    \/ RemoveFile
    \/ ParseKofamScan
    \/ ParseInterProScan
    \/ ParseEggNOG
    \/ ParseEggNOG7
    \/ ParseFantasia

SpecParse == InitParse /\ [][NextParse]_vars

\* parse() has ended on a file that exists / that does not exist
ParseEnded == pc \in {"parsed", "raised"}
ParsedExisting == ParseEnded /\ input_file.exists
ParsedMissing  == ParseEnded /\ ~input_file.exists

\* C6: for every dialect and every input file that exists, whatever its
\* content (empty, malformed rows, wrong or missing header, content that is
\* not in the expected compression format), parse() completes without
\* raising.
C6_ParseNeverRaises ==
    ParsedExisting => raised = "none"

\* C7: for every dialect, when the input file does not exist parse() returns
\* normally with results equal to the empty sequence, also when the parser
\* object held records from an earlier parse.
C7_MissingFileEmptyResults ==
    ParsedMissing => /\ pc = "parsed"
                     /\ raised = "none"
                     /\ results = <<>>

\* a parser that held records parses again after its file was deleted
C7_Witness ==
    /\ ParsedMissing
    /\ prev_results # <<>>
    /\ results = <<>>
    /\ pc = "parsed"

\* the number of tab-separated columns of a line of the file
Columns(line) == Len(Split(line, TAB))
IsCommentLine(line) == line # <<>> /\ Head(line) = "#"

\* the file without its malformed data rows: InterProScan rows of fewer than
\* 4 columns
InterProWellFormed(ls) ==
    SelectSeq(ls, LAMBDA l : IsCommentLine(l) \/ Columns(l) >= 4)

\* EggNOG v5 rows whose column count differs from that of the most recent
\* #query header (hcols; 0 before any header)
RECURSIVE EggNOGWellFormed(_, _)
EggNOGWellFormed(ls, hcols) ==
    IF ls = <<>> THEN <<>>
    ELSE LET l == Head(ls)
         IN  IF IsCommentLine(l)
             THEN <<l>> \o EggNOGWellFormed(Tail(ls),
                              IF StartsWith(l, <<"#", "query">>) THEN Columns(l) ELSE hcols)
             ELSE IF hcols # 0 /\ Columns(l) # hcols
             THEN EggNOGWellFormed(Tail(ls), hcols)
             ELSE <<l>> \o EggNOGWellFormed(Tail(ls), hcols)

\* FANTASIA rows whose column count differs from that of the header, the
\* first line that is no comment
RECURSIVE FantasiaWellFormed(_, _)
FantasiaWellFormed(ls, hcols) ==
    IF ls = <<>> THEN <<>>
    ELSE LET l == Head(ls)
         IN  IF IsCommentLine(l)
             THEN <<l>> \o FantasiaWellFormed(Tail(ls), hcols)
             ELSE IF hcols = 0
             THEN <<l>> \o FantasiaWellFormed(Tail(ls), Columns(l))
             ELSE IF Columns(l) # hcols
             THEN FantasiaWellFormed(Tail(ls), hcols)
             ELSE <<l>> \o FantasiaWellFormed(Tail(ls), hcols)

WellFormedRows(d, ls) ==
    CASE d = InterProScanParser -> InterProWellFormed(ls)
      [] d = EggNOGParser       -> EggNOGWellFormed(ls, 0)
      [] d = FantasiaParser     -> FantasiaWellFormed(ls, 0)
      [] OTHER                  -> ls

\* the file was read as the text it holds
ReadAsText == input_file.gzname = input_file.gzdata

\* C8: for the InterProScan, EggNOG v5 and FANTASIA parsers a malformed data
\* row (fewer than 4 columns; a column count different from the header's)
\* produces no record and changes nothing for the other rows: the records
\* parsed from a file equal, in order, the records parsed from the same file
\* with its malformed rows deleted.
C8_MalformedRowsSkipped ==
    (/\ pc = "parsed"
     /\ input_file.exists
     /\ ReadAsText
     /\ dialect \in {InterProScanParser, EggNOGParser, FantasiaParser})
    => results = ParseText(dialect, model_suffix,
                           WellFormedRows(dialect, input_file.lines))

(***************************************************************************)
(*                        Per-gene tables and annotated genes              *)
(*  create_per_gene_output of the parsers, the Excel file the process_*    *)
(*  drivers write from it, and count_annotated_genes_* of the analyzer     *)
(*  reading that file back.                                                *)
(***************************************************************************)
MaxRecords == 3

GO2 == <<"GO:0000002">>
K2  == <<"K00002">>
PW1 == <<"KEGG:00010">>

\* ', '
COMMA_SP == <<",", SP>>

\* sep.join(pieces) for a separator of several characters
RECURSIVE JoinStr(_, _)
JoinStr(pieces, sep) ==
    IF pieces = <<>> THEN <<>>
    ELSE IF Len(pieces) = 1 THEN pieces[1]
    ELSE pieces[1] \o sep \o JoinStr(Tail(pieces), sep)

\* filter(None, x): the values that are not ''
KeepAll(x) == x
FilterNone(x) == SelectSeq(x, LAMBDA v : v # <<>>)

\* df.groupby(key): the group keys come sorted; the genes of the model in
\* the order of Python's string comparison
GeneOrder == <<GENE1, GENE2>>
SortedKeys(keys) == SelectSeq(GeneOrder, LAMBDA g : g \in keys)

\* KofamScanParser.create_per_gene_output
KofamPerGene(res) ==
    LET keys == SortedKeys({res[i].gene_name : i \in 1..Len(res)})
        Group(g) == SelectSeq(res, LAMBDA r : r.gene_name = g)
        Kegg(g)  == [i \in 1..Len(Group(g)) |-> Group(g)[i].KEGG]
    IN  [i \in 1..Len(keys) |->
            [gene_name |-> keys[i],
             KEGG      |-> JoinStr(FilterNone(Kegg(keys[i])), COMMA_SP)]]

\* A cell of a table read by pd.read_excel: a text, or NaN for a cell that
\* holds '' or one of the other default NA texts.
Text(t) == [k |-> "str", s |-> t]
NaValues == {<<>>, <<"NA">>, <<"N/A">>, <<"NULL">>, <<"NaN">>, <<"nan">>, <<"None">>}
ReadExcelCell(t) == IF t \in NaValues THEN NaN ELSE Text(t)

\* str(x) of such a cell
AsStr(c) == IF c.k = "nan" THEN <<"nan">> ELSE c.s

\* x.notna() & (x.astype(str).str.strip() != '')
NonBlankCell(c) == NotNa(c) /\ Strip(AsStr(c)) # <<>>

\* count_annotated_genes_kofamscan on the per-gene file (table as written)
CountKofam(table) ==
    {table[i].gene_name : i \in {j \in 1..Len(table) :
                                    NonBlankCell(ReadExcelCell(table[j].KEGG))}}

\* the lines of a kofam mapper file the per-gene table is built from:
\* comments, blank lines, gene and gene<TAB>KO
KofamGeneLines ==
    { CommentLine, BlankLine, GENE1, GENE2,
      Row(<<GENE1, K1>>), Row(<<GENE1, K2>>), Row(<<GENE2, K1>>) }

\* v.replace(old, new), one character for another
Replace(v, old, new) == [i \in 1..Len(v) |-> IF v[i] = old THEN new ELSE v[i]]

\* sv = sv.strip(); if sv and sv not in unique_values: unique_values.append(sv)
InSeq(x, seq) == \E i \in 1..Len(seq) : seq[i] = x
AppendAlways(unique_values, sv) ==
    IF Strip(sv) # <<>> THEN Append(unique_values, Strip(sv)) ELSE unique_values
AppendUnique(unique_values, sv) ==
    IF Strip(sv) # <<>> /\ ~InSeq(Strip(sv), unique_values)
    THEN Append(unique_values, Strip(sv)) ELSE unique_values

RECURSIVE AddSubValues(_, _)
AddSubValues(unique_values, sub_values) ==
    IF sub_values = <<>> THEN unique_values
    ELSE AddSubValues(AppendUnique(unique_values, Head(sub_values)), Tail(sub_values))

\* for v in values: sub_values = v.replace('|', ',').split(',') ...
UniqueValuesOfFirst(values, unique_values) ==
    IF values = <<>> THEN unique_values
    ELSE AddSubValues(unique_values, Split(Replace(Head(values), "|", ","), ","))
RECURSIVE UniqueValues(_, _)
UniqueValues(values, unique_values) ==
    IF values = <<>> THEN unique_values
    ELSE UniqueValues(Tail(values),
             AddSubValues(unique_values, Split(Replace(Head(values), "|", ","), ",")))

\* aggregate_values(series) of InterProScanParser.create_per_gene_output,
\* before the join and joined
AggregateTerms(series) ==
    UniqueValues(SelectSeq(series, LAMBDA v : v # <<>> /\ Strip(v) # <<>>), <<>>)
aggregate_values(series) == JoinStr(AggregateTerms(series), COMMA_SP)

\* InterProScanParser.create_per_gene_output
InterProPerGene(res) ==
    LET keys == SortedKeys({res[i].gene : i \in 1..Len(res)})
        Group(g) == SelectSeq(res, LAMBDA r : r.gene = g)
        Go(g) == [i \in 1..Len(Group(g)) |-> Group(g)[i].GO]
        Pw(g) == [i \in 1..Len(Group(g)) |-> Group(g)[i].Pathways]
    IN  [i \in 1..Len(keys) |->
            [gene     |-> keys[i],
             GO       |-> aggregate_values(Go(keys[i])),
             Pathways |-> aggregate_values(Pw(keys[i]))]]

\* count_annotated_genes_interproscan: has_go or has_pathway
CountInterPro(table) ==
    {table[i].gene : i \in {j \in 1..Len(table) :
        \/ NonBlankCell(ReadExcelCell(table[j].GO))
        \/ NonBlankCell(ReadExcelCell(table[j].Pathways))}}

\* FantasiaParser.create_per_gene_output
FantasiaPerGeneSetLike(res) ==
    LET keys == SortedKeys({res[i].gene : i \in 1..Len(res)})
        Group(g) == SelectSeq(res, LAMBDA r : r.gene = g)
        Go(g) == [i \in 1..Len(Group(g)) |-> Group(g)[i].GO]
    IN  [i \in 1..Len(keys) |->
            [gene |-> keys[i], GO |-> aggregate_values(Go(keys[i]))]]
FantasiaPerGene(res) ==
    LET keys == SortedKeys({res[i].gene : i \in 1..Len(res)})
        Group(g) == SelectSeq(res, LAMBDA r : r.gene = g)
        Go(g) == [i \in 1..Len(Group(g)) |-> Group(g)[i].GO]
    IN  [i \in 1..Len(keys) |->
            [gene |-> keys[i], GO |-> JoinStr(Go(keys[i]), COMMA_SP)]]

\* count_annotated_genes_fantasia
CountFantasia(table) ==
    {table[i].gene : i \in {j \in 1..Len(table) :
                               NonBlankCell(ReadExcelCell(table[j].GO))}}

\* count_annotated_genes_eggnog on the table save_to_excel wrote from the
\* results: df['GOs'], then df['KEGG_ko'], which raises KeyError when the
\* table has no such column
ColumnsOf(table) == DOMAIN table[1]
CountEggNOG(table) ==
    IF "gene" \notin ColumnsOf(table) THEN Ok([GO |-> {}, KEGG |-> {}])
    ELSE IF "GOs" \notin ColumnsOf(table) \/ "KEGG_ko" \notin ColumnsOf(table)
    THEN [exc |-> "KeyError", value |-> [GO |-> {}, KEGG |-> {}]]
    ELSE Ok([GO   |-> {table[i].gene : i \in {j \in 1..Len(table) :
                          NonBlankCell(ReadExcelCell(table[j].GOs))}},
             KEGG |-> {table[i].gene : i \in {j \in 1..Len(table) :
                          NonBlankCell(ReadExcelCell(table[j].KEGG_ko))}}])

\* main: eggnog_combined = eggnog_data['GO'][0] | eggnog_data['KEGG'][0]
EggnogCombined(eggnog_data) == eggnog_data.GO \cup eggnog_data.KEGG

\* the hits of an InterProScan file the per-gene table is built from
InterProGeneLines ==
    { InterProRow(GENE1, GO1 \o <<"|">> \o GO2, DASH),
      InterProRow(GENE1, GO2 \o COMMA_SP \o GO1, PW1),
      InterProRow(GENE1, DASH, DASH),
      InterProRow(GENE2, GO1, DASH),
      InterProRow(GENE2, DASH, DASH),
      InterProRow(GENE2, <<>>, <<>>),
      Row(<<GENE2, X, X, <<"Pfam">>>>) }

\* the rows of an EggNOG v5 file under the header #query GOs KEGG_ko
EggNOGGeneHeader == QueryHeaderLine(<<(<<"query">>), <<"GOs">>, <<"KEGG_ko">>>>)
EggNOGGeneLines ==
    { Row(<<GENE1, GO1, <<"ko:", "K00001">>>>),
      Row(<<GENE1, DASH, K1>>),
      Row(<<GENE2, GO1, DASH>>),
      Row(<<GENE2, DASH, DASH>>) }

\* the rows of an EggNOG v7 file
EggNOG7GeneLines ==
    { EggNOG7Row(GENE1, <<"p1">>, <<"ko:", "K00001", "|", "5">>, <<"GO:0000001", "|", "7">>),
      EggNOG7Row(GENE1, <<"p1">>, K1, DASH),
      EggNOG7Row(GENE2, <<"p1">>, DASH, <<"GO:0000001", "|", "7">>),
      EggNOG7Row(GENE2, DASH, DASH, DASH) }

\* the rows of a FANTASIA file under its header
FantasiaGeneLines ==
    { Row(<<GENE1, GO1, <<"3">>, <<"0.9">>, <<"0.8">>>>),
      Row(<<GENE1, GO2, <<"3">>, <<"0.9">>, <<"0.8">>>>),
      Row(<<GENE2, GO1, <<"3">>, <<"0.9">>, <<"0.8">>>>),
      Row(<<GENE2, GO2, <<"3">>, <<>>, <<"0.8">>>>),
      Row(<<GENE2, DASH, <<"3">>, <<"0.9">>, <<"0.8">>>>) }

GeneLinesOf(d) ==
    CASE d = KofamScanParser    -> KofamGeneLines
      [] d = InterProScanParser -> InterProGeneLines
      [] d = EggNOGParser       -> EggNOGGeneLines
      [] d = EggNOG7Parser      -> EggNOG7GeneLines
      [] d = FantasiaParser     -> FantasiaGeneLines

\* the header line the file starts with
HeaderOf(d) ==
    CASE d = EggNOGParser   -> <<EggNOGGeneHeader>>
      [] d = FantasiaParser -> <<FantasiaHeader>>
      [] OTHER              -> <<>>

\* a tool output file, holding its header, in the results directory
InitGene ==
    /\ pc = "writing"
    /\ raised = "none"
    /\ dialect \in Dialects
    /\ model_suffix \in IF dialect = FantasiaParser THEN {ESM, PROT} ELSE {None}
    /\ input_file = [exists |-> TRUE,
                     gzname |-> dialect = EggNOG7Parser,
                     gzdata |-> dialect = EggNOG7Parser,
                     lines  |-> HeaderOf(dialect)]
    /\ results = <<>>
    /\ prev_results = <<>>
    /\ per_gene = <<>>
    /\ annotated = {}
    /\ OverlapIdle /\ FilterIdle /\ TermIdle /\ ExcelIdle /\ FastaIdle /\ RunIdle

\* the tool writes one more row to its output file
WriteRow(line) ==
    /\ pc = "writing"
    /\ Len(input_file.lines) < Len(HeaderOf(dialect)) + MaxRecords
    /\ input_file' = [input_file EXCEPT !.lines = Append(@, line)]
    /\ UNCHANGED <<pc, raised, dialect, model_suffix, results, prev_results,
                   geneVars, overlapVars, filterVars, termVars, excelVars, fastaVars, runVars>>

\* the body of a process_* loop: parser.parse(), then the per-gene table,
\* written to <sample>_<tool>_per_gene.xlsx unless it is empty
Process(d, table) ==
    /\ pc = "writing"
    /\ results' = ParseText(d, model_suffix, input_file.lines)
    /\ prev_results' = results
    /\ per_gene' = table
    /\ pc' = "written"
    /\ UNCHANGED <<raised, dialect, model_suffix, input_file, annotated,
                   overlapVars, filterVars, termVars, excelVars, fastaVars, runVars>>

process_kofamscan ==
    /\ dialect = KofamScanParser
    /\ Process(KofamScanParser,
               KofamPerGene(ParseText(KofamScanParser, model_suffix, input_file.lines)))
process_interproscan ==
    /\ dialect = InterProScanParser
    /\ Process(InterProScanParser,
               InterProPerGene(ParseText(InterProScanParser, model_suffix, input_file.lines)))
\* EggNOG: the per-gene file is save_to_excel of the results themselves
process_eggnog_v5 ==
    /\ dialect = EggNOGParser
    /\ Process(EggNOGParser, ParseText(EggNOGParser, model_suffix, input_file.lines))
process_eggnog_v7 ==
    /\ dialect = EggNOG7Parser
    /\ Process(EggNOG7Parser, ParseText(EggNOG7Parser, model_suffix, input_file.lines))
process_fantasia ==
    /\ dialect = FantasiaParser
    /\ Process(FantasiaParser,
               FantasiaPerGene(ParseText(FantasiaParser, model_suffix, input_file.lines)))

\* main of the analyzer, one tool: the per-gene file is read when it exists
\* (an empty table is never written) and the tool is skipped otherwise
Analyze(outcome) ==
    /\ pc = "written"
    /\ annotated' = outcome.value
    /\ raised' = outcome.exc
    /\ pc' = IF outcome.exc = "none" THEN "counted" ELSE "raised"
    /\ UNCHANGED <<per_gene, parseVars, overlapVars, filterVars, termVars, excelVars, fastaVars, runVars>>

AnalyzeKofamScan ==
    /\ dialect = KofamScanParser
    /\ Analyze(Ok(IF per_gene = <<>> THEN {} ELSE CountKofam(per_gene)))
AnalyzeInterProScan ==
    /\ dialect = InterProScanParser
    /\ Analyze(Ok(IF per_gene = <<>> THEN {} ELSE CountInterPro(per_gene)))
AnalyzeEggNOG ==
    /\ dialect \in {EggNOGParser, EggNOG7Parser}
    /\ Analyze(IF per_gene = <<>> THEN Ok([GO |-> {}, KEGG |-> {}])
               ELSE CountEggNOG(per_gene))
AnalyzeFantasia ==
    /\ dialect = FantasiaParser
    /\ Analyze(Ok(IF per_gene = <<>> THEN {} ELSE CountFantasia(per_gene)))

NextGene ==
    \/ \E line \in GeneLinesOf(dialect) : WriteRow(line)
    \/ process_kofamscan
    \/ process_interproscan
    \/ process_eggnog_v5
    \/ process_eggnog_v7
    \/ process_fantasia
    \/ AnalyzeKofamScan
    \/ AnalyzeInterProScan
    \/ AnalyzeEggNOG
    \/ AnalyzeFantasia

SpecGene == InitGene /\ [][NextGene]_vars

\* the rows of the input file: its lines that are no comment and not blank,
\* and the tab-separated fields of a row
DataRows == SelectSeq(input_file.lines,
                      LAMBDA l : ~IsCommentLine(l) /\ Strip(l) # <<>>)
Fields(row) == Split(row, TAB)
RowGene(row) == Fields(row)[1]
TableGenes(table) == {table[i].gene : i \in 1..Len(table)}

\* the KO value of a KofamScan row, '' when the row has none
RowKO(row) == IF Len(Fields(row)) >= 2 THEN Fields(row)[2] ELSE <<>>
HasKO(g) == \E i \in 1..Len(DataRows) :
                RowGene(DataRows[i]) = g /\ Strip(RowKO(DataRows[i])) # <<>>

\* C11: for KofamScan every row gives one record, with the row's gene and its
\* KO (the empty term when the row has no KO); after per-gene aggregation a
\* gene is in the annotated set iff at least one of its rows carries a
\* non-blank KO, and a gene whose rows all lack a KO is in the per-gene table
\* with a blank KEGG cell.
C11_KofamAnnotated ==
    (pc = "counted" /\ dialect = KofamScanParser) =>
        /\ Len(results) = Len(DataRows)
        /\ \A i \in 1..Len(DataRows) :
              /\ results[i].gene_name = RowGene(DataRows[i])
              /\ results[i].KEGG = RowKO(DataRows[i])
        /\ \A g \in {RowGene(DataRows[i]) : i \in 1..Len(DataRows)} :
              /\ g \in annotated <=> HasKO(g)
              /\ \E j \in 1..Len(per_gene) :
                    /\ per_gene[j].gene_name = g
                    /\ HasKO(g) \/ Strip(per_gene[j].KEGG) = <<>>
        /\ annotated \subseteq {RowGene(DataRows[i]) : i \in 1..Len(DataRows)}

\* C11 witness: GENE1 with a KO is counted; GENE2, whose rows carry no KO or
\* an empty one, is in the table with an empty cell and is not counted.
C11_Witness ==
    /\ pc = "counted" /\ dialect = KofamScanParser
    /\ \E i \in 1..Len(DataRows) : DataRows[i] = Row(<<GENE1, K1>>)
    /\ \E i \in 1..Len(DataRows) : DataRows[i] = GENE2
    /\ annotated = {GENE1}
    /\ \E j \in 1..Len(per_gene) :
          per_gene[j].gene_name = GENE2 /\ per_gene[j].KEGG = <<>>

\* the pieces of a cell between the separators ',' and '|', trimmed, the
\* empty ones left out
RECURSIVE PiecesFrom(_, _)
PiecesFrom(v, piece) ==
    IF v = <<>> THEN <<piece>>
    ELSE IF Head(v) \in {",", "|"} THEN <<piece>> \o PiecesFrom(Tail(v), <<>>)
    ELSE PiecesFrom(Tail(v), Append(piece, Head(v)))
Trimmed(pieces) == [i \in 1..Len(pieces) |-> Strip(pieces[i])]
CellTerms(v) == SelectSeq(Trimmed(PiecesFrom(v, <<>>)), LAMBDA t : t # <<>>)

\* the terms of all cells of a sequence, in order
RECURSIVE AllTerms(_)
AllTerms(cells) ==
    IF cells = <<>> THEN <<>> ELSE CellTerms(Head(cells)) \o AllTerms(Tail(cells))

\* a sequence without the later occurrences of its elements
RECURSIVE FirstOccurrences(_)
FirstOccurrences(seq) ==
    IF seq = <<>> THEN <<>>
    ELSE LET front == FirstOccurrences(SubSeq(seq, 1, Len(seq) - 1))
             last  == seq[Len(seq)]
         IN  IF InSeq(last, front) THEN front ELSE Append(front, last)

\* the GO and the Pathways cells of the parsed rows of gene g
GoCells(res, g) ==
    LET rows == SelectSeq(res, LAMBDA r : r.gene = g)
    IN  [i \in 1..Len(rows) |-> rows[i].GO]
PathwayCells(res, g) ==
    LET rows == SelectSeq(res, LAMBDA r : r.gene = g)
    IN  [i \in 1..Len(rows) |-> rows[i].Pathways]
ParsedGenes(res) == {res[i].gene : i \in 1..Len(res)}

InterProAggregated ==
    pc \in {"written", "counted"} /\ dialect = InterProScanParser

\* C12: the InterProScan per-gene table has exactly one row per distinct
\* gene; the GO cell of a gene, and likewise its Pathways cell, is the
\* ', '-joined list of the distinct trimmed non-empty terms got by splitting
\* each contributing cell on ',' and '|', each once, in order of first
\* occurrence.
C12_InterProPerGene ==
    InterProAggregated =>
        /\ TableGenes(per_gene) = ParsedGenes(results)
        /\ Len(per_gene) = Cardinality(ParsedGenes(results))
        /\ \A j \in 1..Len(per_gene) :
              LET g == per_gene[j].gene
              IN  /\ per_gene[j].GO =
                        JoinStr(FirstOccurrences(AllTerms(GoCells(results, g))), COMMA_SP)
                  /\ per_gene[j].Pathways =
                        JoinStr(FirstOccurrences(AllTerms(PathwayCells(results, g))), COMMA_SP)

\* C12 witness: GENE1 has the cells 'GO1|GO2' and 'GO2, GO1'; its GO cell
\* holds the two terms as two entries, each once.
C12_Witness ==
    /\ InterProAggregated
    /\ GoCells(results, GENE1) = <<GO1 \o <<"|">> \o GO2, GO2 \o COMMA_SP \o GO1>>
    /\ \E j \in 1..Len(per_gene) :
          /\ per_gene[j].gene = GENE1
          /\ per_gene[j].GO = GO1 \o COMMA_SP \o GO2

\* the same records supplied in another order
OrderingsOf(n) == {f \in [1..n -> 1..n] : \A i, j \in 1..n : f[i] = f[j] => i = j}
Permuted(res, f) == [i \in 1..Len(res) |-> res[f[i]]]
Reorderings(res) == {Permuted(res, f) : f \in OrderingsOf(Len(res))}
TermSet(v) == {CellTerms(v)[i] : i \in 1..Len(CellTerms(v))}

\* C13, as stated: aggregating the same parsed records again, in the same or
\* in a different order, yields an identical per-gene row for every gene
\* (identical GO and Pathways cells).
C13_OrderInsensitive ==
    InterProAggregated =>
        \A other \in Reorderings(results) : InterProPerGene(other) = per_gene

\* C13, amended: aggregating the same parsed records again yields one row
\* per gene for the same genes; in the same order the rows are identical, and
\* in a different order the GO cell and the Pathways cell of every gene hold
\* the same set of terms (their order in the cell follows the records).
C13_SameTermsAnyOrder ==
    InterProAggregated =>
        /\ InterProPerGene(results) = per_gene
        /\ \A other \in Reorderings(results) :
              LET again == InterProPerGene(other)
              IN  /\ Len(again) = Len(per_gene)
                  /\ \A j \in 1..Len(per_gene) :
                        /\ again[j].gene = per_gene[j].gene
                        /\ TermSet(again[j].GO) = TermSet(per_gene[j].GO)
                        /\ TermSet(again[j].Pathways) = TermSet(per_gene[j].Pathways)

\* C13 witness: records of one gene whose other order gives the same terms
\* in a cell that reads differently.
C13_Witness ==
    /\ InterProAggregated
    /\ \E other \in Reorderings(results) :
          \E j \in 1..Len(per_gene) :
             /\ InterProPerGene(other)[j].GO # per_gene[j].GO
             /\ TermSet(InterProPerGene(other)[j].GO) = {GO1, GO2}
             /\ TermSet(per_gene[j].GO) = {GO1, GO2}

\* a cell holds a term that is no placeholder
HasRealTerm(v) == \E t \in TermSet(v) : t # DASH

\* C18: a gene is in the InterProScan annotated set iff at least one of its
\* parsed rows has a GO or Pathways cell holding a value that is not empty,
\* not blank and not the placeholder '-'.
C18_InterProAnnotated ==
    (pc = "counted" /\ dialect = InterProScanParser) =>
        \A g \in ParsedGenes(results) :
            g \in annotated <=>
                \E i \in 1..Len(results) :
                    /\ results[i].gene = g
                    /\ HasRealTerm(results[i].GO) \/ HasRealTerm(results[i].Pathways)

FantasiaAggregated ==
    pc \in {"written", "counted"} /\ dialect = FantasiaParser

\* C14: the FANTASIA per-gene table (one parser per model) has one row per
\* gene, whose GO cell is the comma-joined concatenation, in input order, of
\* the GO id of every record parsed for that gene: as many entries as
\* records, a GO id that occurs k times in the records occurring k times.
C14_FantasiaListLike ==
    FantasiaAggregated =>
        /\ TableGenes(per_gene) = ParsedGenes(results)
        /\ Len(per_gene) = Cardinality(ParsedGenes(results))
        /\ \A j \in 1..Len(per_gene) :
              LET entries == CellTerms(per_gene[j].GO)
                  records == GoCells(results, per_gene[j].gene)
              IN  /\ Len(entries) = Len(records)
                  /\ \A i \in 1..Len(records) : entries[i] = records[i]

\* C14 witness: GENE1 has three records, GO1 twice with GO2 in between, and
\* the cell repeats GO1.
C14_Witness ==
    /\ FantasiaAggregated
    /\ GoCells(results, GENE1) = <<GO1, GO2, GO1>>
    /\ \E j \in 1..Len(per_gene) :
          /\ per_gene[j].gene = GENE1
          /\ per_gene[j].GO = GO1 \o COMMA_SP \o GO2 \o COMMA_SP \o GO1

\* the KEGG cell of a row of an EggNOG per-gene table: column KEGG_ko in the
\* v5 table, column KEGGs in the v7 table
EggnogKeggCell(row) == IF dialect = EggNOGParser THEN row.KEGG_ko ELSE row.KEGGs
GenesWith(table, CellOf(_)) ==
    {table[i].gene : i \in {j \in 1..Len(table) : Strip(CellOf(table[j])) # <<>>}}
GoCellOf(row) == row.GOs

\* C19: for a non-empty EggNOG per-gene table of either dialect (v5 with the
\* columns GOs and KEGG_ko, v7 with the columns GOs and KEGGs),
\* count_annotated_genes_eggnog returns without raising the genes with a
\* non-blank GO cell and the genes with a non-blank KEGG cell, and the
\* combined set is their union.
C19_EggnogCounted ==
    (/\ pc \in {"counted", "raised"}
     /\ dialect \in {EggNOGParser, EggNOG7Parser}
     /\ per_gene # <<>>)
    => /\ raised = "none"
       /\ annotated.GO = GenesWith(per_gene, GoCellOf)
       /\ annotated.KEGG = GenesWith(per_gene, EggnogKeggCell)
       /\ EggnogCombined(annotated) =
             GenesWith(per_gene, GoCellOf) \cup GenesWith(per_gene, EggnogKeggCell)

(***************************************************************************)
(*                        filter_excel_file                                *)
(*  One FANTASIA per-term table, read from Excel, filtered by the          *)
(*  threshold of its model.  A table is [has_score, rows]: whether it has  *)
(*  the final_score column, and its rows [gene, final_score].              *)
(***************************************************************************)
MaxExcelRows == 3

\* the cells of the final_score column and the thresholds (scaled by 4)
ExcelScores == {NaN, Str, Num(1), Num(2), Num(3)}
ThresholdValues == {0, 8, 10}

\* df['final_score'] >= threshold, on the coerced column
KeepsRowStrict(c, thr) == ToNumeric(c).k = "num" /\ 4 * ToNumeric(c).v > thr
KeepsRow(c, thr) == ToNumeric(c).k = "num" /\ 4 * ToNumeric(c).v >= thr

\* filter_excel_file: filtered_df, and whether the output file is written
filter_excel_file(df, thr) ==
    LET coerced == [i \in 1..Len(df.rows) |->
                       [df.rows[i] EXCEPT !.final_score = ToNumeric(@)]]
        rows == IF df.has_score
                THEN SelectSeq(coerced, LAMBDA r : KeepsRow(r.final_score, thr))
                ELSE df.rows
    IN  [rows |-> rows, written |-> rows # <<>>]

ExcelRows(df) ==
    IF df.has_score
    THEN [gene : {GENE1, GENE2}, final_score : ExcelScores]
    ELSE [gene : {GENE1, GENE2}]

\* a per-term file of one model and the threshold of that model
InitExcel ==
    /\ pc = "loading"
    /\ raised = "none"
    /\ excel_df \in [has_score : BOOLEAN, rows : {<<>>}]
    /\ threshold \in ThresholdValues
    /\ filtered_df = [rows |-> <<>>, written |-> FALSE]
    /\ OverlapIdle /\ FilterIdle /\ ParseIdle /\ TermIdle /\ GeneIdle /\ FastaIdle /\ RunIdle

\* pd.read_excel(excel_path, sheet_name='Annotations'): the next row
ReadExcelRow(row) ==
    /\ pc = "loading"
    /\ Len(excel_df.rows) < MaxExcelRows
    /\ excel_df' = [excel_df EXCEPT !.rows = Append(@, row)]
    /\ UNCHANGED <<pc, raised, threshold, filtered_df,
                   overlapVars, filterVars, parseVars, termVars, geneVars, fastaVars, runVars>>

\* filter_excel_file(excel_path, threshold, output_path), the file read
FilterExcelFile ==
    /\ pc = "loading"
    /\ filtered_df' = filter_excel_file(excel_df, threshold)
    /\ pc' = "filtered"
    /\ UNCHANGED <<raised, excel_df, threshold,
                   overlapVars, filterVars, parseVars, termVars, geneVars, fastaVars, runVars>>

NextExcel ==
    \/ \E row \in ExcelRows(excel_df) : ReadExcelRow(row)
    \/ FilterExcelFile

SpecExcel == InitExcel /\ [][NextExcel]_vars

\* the rows whose score is a number >= the threshold, and the k-th of them
ScoreAtLeast(i) ==
    LET c == excel_df.rows[i].final_score
    IN  c.k = "num" /\ 4 * c.v >= threshold
KeptRows == {i \in 1..Len(excel_df.rows) : ScoreAtLeast(i)}
KthKept(k) == CHOOSE i \in KeptRows : Cardinality({j \in KeptRows : j <= i}) = k

\* C15: filter_excel_file keeps exactly the rows whose final_score, coerced
\* to numeric, is >= the threshold (a missing or non-numeric score drops the
\* row), in their original order and with their other columns unchanged;
\* a table without the final_score column passes through unfiltered; no
\* error is raised.
C15_FilterExcelFile ==
    pc = "filtered" =>
        /\ raised = "none"
        /\ IF excel_df.has_score
           THEN /\ Len(filtered_df.rows) = Cardinality(KeptRows)
                /\ \A k \in 1..Len(filtered_df.rows) :
                      /\ filtered_df.rows[k].gene = excel_df.rows[KthKept(k)].gene
                      /\ filtered_df.rows[k].final_score
                            = excel_df.rows[KthKept(k)].final_score
           ELSE filtered_df.rows = excel_df.rows

\* C15 witness: a text score, a score equal to the threshold and a score
\* below it; only the second row is kept.
C15_Witness ==
    /\ pc = "filtered"
    /\ excel_df.has_score
    /\ threshold = 8
    /\ excel_df.rows = <<[gene |-> GENE1, final_score |-> Str],
                         [gene |-> GENE2, final_score |-> Num(2)],
                         [gene |-> GENE1, final_score |-> Num(1)]>>
    /\ filtered_df.rows = <<[gene |-> GENE2, final_score |-> Num(2)]>>

\* FANTASIA file: the header is the first line that is no comment; the data
\* rows are the lines after it that are no comment; the columns of a line
\* are its tab-separated fields, the line trimmed
HeaderIndex ==
    CHOOSE k \in 1..Len(input_file.lines) :
        /\ ~IsCommentLine(input_file.lines[k])
        /\ \A j \in 1..(k - 1) : IsCommentLine(input_file.lines[j])
HasHeader == \E k \in 1..Len(input_file.lines) : ~IsCommentLine(input_file.lines[k])
ColumnsOfLine(k) == Split(Strip(input_file.lines[k]), TAB)
ColumnNamed(name) ==
    {c \in 1..Len(ColumnsOfLine(HeaderIndex)) : ColumnsOfLine(HeaderIndex)[c] = name}

\* record r comes from data row k: the row's go_id is present and no
\* placeholder, and when a model is asked for, the row holds a non-blank
\* value in the final_score column of that model
ComesFromRow(r, k) ==
    LET f == ColumnsOfLine(k)
    IN  /\ k > HeaderIndex
        /\ ~IsCommentLine(input_file.lines[k])
        /\ \E c \in ColumnNamed(<<"go_id">>) :
              c <= Len(f) /\ f[c] = r.GO /\ f[c] # <<>> /\ f[c] # DASH
        /\ \E c \in ColumnNamed(<<"accession">>) : c <= Len(f) /\ f[c] = r.gene
        /\ model_suffix # None =>
              \E c \in ColumnNamed(ScoreCol(model_suffix)) :
                  c <= Len(f) /\ f[c] = r.final_score /\ Strip(f[c]) # <<>>

\* C17: every record in the results of FantasiaParser.parse comes from a
\* data row whose go_id is present and is not the placeholder '-' and, when
\* a model is requested, whose final_score_<model> column exists in the
\* header and holds a non-blank value in that row.
C17_FantasiaRecordsGated ==
    (pc = "parsed" /\ dialect = FantasiaParser /\ input_file.exists) =>
        \A i \in 1..Len(results) :
            /\ HasHeader
            /\ \E k \in 1..Len(input_file.lines) : ComesFromRow(results[i], k)

\* C17 witness: under the model ESM_L0, a row with a blank ESM_L0 score and a
\* row with a score; only the second gives a record.
C17_Witness ==
    /\ pc = "parsed" /\ dialect = FantasiaParser /\ model_suffix = ESM
    /\ input_file.lines = <<FantasiaHeader,
                            Row(<<GENE1, GO1, <<"3">>, <<>>, <<"0.8">>>>),
                            Row(<<GENE1, GO1, <<"3">>, <<"0.9">>, <<"0.8">>>>)>>
    /\ Len(results) = 1
    /\ results[1].final_score = <<"0.9">>

\* C20: a run of the FANTASIA filter whose summary table and Excel directory
\* exist never aborts: a summary table without model columns gives a warning
\* per model and the run continues through its remaining steps.
C20_RunNeverAborts == pc # "exit"

(***************************************************************************)
(*  EggNOG v5 files: header resolution                                     *)
(***************************************************************************)
IsQueryLine(k) == StartsWith(input_file.lines[k], <<"#", "query">>)
IsDataLine(k)  == ~IsCommentLine(input_file.lines[k])

\* the most recent #query line before line k; 0 when there is none
HeaderFor(k) ==
    LET before == {j \in 1..(k - 1) : IsQueryLine(j)}
    IN  IF before = {} THEN 0
        ELSE CHOOSE j \in before : \A i \in before : i <= j

\* the column names of the #query line j
HeaderNames(j) == Split(Tail(Strip(input_file.lines[j])), TAB)

\* the data rows that give a record, in file order
GivesRecord(k) ==
    /\ IsDataLine(k)
    /\ HeaderFor(k) # 0
    /\ Len(ColumnsOfLine(k)) = Len(HeaderNames(HeaderFor(k)))
RecordRows ==
    SelectSeq([k \in 1..Len(input_file.lines) |-> k], GivesRecord)

\* the value of row k in the column its header names so; '' without it
ValueOf(k, name) ==
    LET names == HeaderNames(HeaderFor(k))
        cols  == {c \in 1..Len(names) : names[c] = name}
    IN  IF cols = {} THEN <<>> ELSE ColumnsOfLine(k)[CHOOSE c \in cols : TRUE]
EitherOf(a, b) == IF a # <<>> THEN a ELSE b
Undash(v) == IF v = DASH THEN <<>> ELSE v

RawFields(k) == Split(input_file.lines[k], TAB)
RawValue(k, name) ==
    LET names == RawFields(HeaderIndex)
        cols  == {c \in 1..Len(names) : names[c] = name}
    IN  IF cols = {} THEN <<>> ELSE RawFields(k)[CHOOSE c \in cols : TRUE]
HeaderComplete ==
    /\ HasHeader
    /\ \A name \in {<<"accession">>, <<"go_id">>} :
          \E c \in 1..Len(RawFields(HeaderIndex)) : RawFields(HeaderIndex)[c] = name

\* a data row with as many fields as the header and a real go_id
FullRow(k) ==
    /\ k > HeaderIndex
    /\ ~IsCommentLine(input_file.lines[k])
    /\ Len(RawFields(k)) = Len(RawFields(HeaderIndex))
    /\ RawValue(k, <<"go_id">>) # <<>>
    /\ RawValue(k, <<"go_id">>) # DASH

\* the record of row k is in the stream of the requested model
InStream(k) ==
    \E i \in 1..Len(results) :
        results[i] = [gene        |-> RawValue(k, <<"accession">>),
                      GO          |-> RawValue(k, <<"go_id">>),
                      term_count  |-> RawValue(k, <<"term_count">>),
                      final_score |-> RawValue(k, ScoreCol(model_suffix))]

\* C23: a FANTASIA data row with as many tab-separated fields as the header
\* and a go_id that is present and no placeholder is in the stream of model
\* M if and only if its final_score_M field is non-blank, whatever the other
\* models' score fields hold and whichever columns the models occupy.
C23_ScoreDecidesStream ==
    (/\ pc = "parsed" /\ dialect = FantasiaParser /\ input_file.exists
     /\ model_suffix # None /\ HeaderComplete)
    => \A k \in 1..Len(input_file.lines) :
          FullRow(k) =>
             (InStream(k) <=> Strip(RawValue(k, ScoreCol(model_suffix))) # <<>>)

\* the header of the file lacks a required column
HeaderIncomplete ==
    /\ HasHeader
    /\ \E name \in {<<"accession">>, <<"go_id">>} : ColumnNamed(name) = {}

\* C24: in FantasiaParser.parse the first line not starting with '#' is the
\* header; when it lacks accession or go_id the parse stops there: no later
\* line gives a record, results is empty and nothing is raised.
C24_IncompleteHeaderStops ==
    (ParsedExisting /\ dialect = FantasiaParser /\ HeaderIncomplete) =>
        /\ pc = "parsed"
        /\ raised = "none"
        /\ results = <<>>

\* C24 witness: a header without accession, then a row that would give a
\* record under it
C24_Witness ==
    /\ pc = "parsed" /\ dialect = FantasiaParser /\ model_suffix = None
    /\ input_file.lines = << CommentLine,
                             Row(<<(<<"go_id">>), <<"term_count">>>>),
                             Row(<<GENE2, GO1>>) >>
    /\ results = <<>>

(***************************************************************************)
(*  EggNOG v7 files: positional rows and the header-driven fallback        *)
(***************************************************************************)
IsPositional(k) ==
    IsDataLine(k) /\ Len(ColumnsOfLine(k)) >= 15
IsFallback(k) ==
    /\ IsDataLine(k)
    /\ Len(ColumnsOfLine(k)) \in 2..14
    /\ HeaderFor(k) # 0
    /\ Len(ColumnsOfLine(k)) = Len(HeaderNames(HeaderFor(k)))
GivesRecord7(k) == IsPositional(k) \/ IsFallback(k)
RecordRows7 ==
    SelectSeq([k \in 1..Len(input_file.lines) |-> k], GivesRecord7)

\* the record of row k
RecordOf7(k) ==
    LET c == ColumnsOfLine(k)
    IN  IF IsPositional(k)
        THEN [gene              |-> c[1],
              eggnog_protein_ID |-> Undash(c[2]),
              GOs               |-> Undash(c[15]),
              KEGGs             |-> Undash(c[13])]
        ELSE [gene              |-> ValueOf(k, <<"query">>),
              eggnog_protein_ID |-> Undash(ValueOf(k, <<"seed_ortholog">>)),
              GOs               |-> Undash(EitherOf(ValueOf(k, <<"GOs">>),
                                                    ValueOf(k, <<"GO">>))),
              KEGGs             |-> Undash(EitherOf(ValueOf(k, <<"KEGG_ko">>),
                                                    ValueOf(k, <<"KEGG_KO">>)))]

MaxFastaLines == 3
MaxAccessions == 2

\* s.split(): the words between runs of whitespace
RECURSIVE WordsFrom(_, _)
WordsFrom(s, word) ==
    IF s = <<>> THEN (IF word = <<>> THEN <<>> ELSE <<word>>)
    ELSE IF Head(s) \in Whitespace
    THEN (IF word = <<>> THEN <<>> ELSE <<word>>) \o WordsFrom(Tail(s), <<>>)
    ELSE WordsFrom(Tail(s), Append(word, Head(s)))
Words(s) == WordsFrom(s, <<>>)

IsFastaHeader(line) == StartsWith(line, <<">">>)
GENE_ATTR == <<"gene", "=">>

\* part.split('=')[1] of the first part that starts with 'gene='; protein_id
\* without such a part
GeneIdOf(parts, protein_id) ==
    LET hits == {i \in 1..Len(parts) : StartsWith(parts[i], GENE_ATTR)}
    IN  IF hits = {} THEN protein_id
        ELSE Split(parts[CHOOSE i \in hits : \A j \in hits : i <= j], "=")[2]

\* protein_to_gene[protein_id] = gene_id
SetItem(d, k, v) == [x \in DOMAIN d \cup {k} |-> IF x = k THEN v ELSE d[x]]

\* parse_fasta_for_gene_mapping, the loop over the lines of the file
RECURSIVE MappingLoop(_, _)
MappingLoop(ls, d) ==
    IF ls = <<>> THEN Ok(d)
    ELSE IF ~IsFastaHeader(Head(ls)) THEN MappingLoop(Tail(ls), d)
    ELSE LET parts == Words(Strip(DropFirst(Head(ls), 1)))
         IN  IF parts = <<>> THEN Raise("IndexError")
             ELSE MappingLoop(Tail(ls), SetItem(d, parts[1], GeneIdOf(parts, parts[1])))

parse_fasta_for_gene_mapping(file) ==
    IF ~file.exists THEN Ok(<<>>) ELSE MappingLoop(file.lines, <<>>)

\* parse_fasta_file, the loop over the lines of the file
RECURSIVE GenesLoop(_, _)
GenesLoop(ls, acc) ==
    IF ls = <<>> THEN Ok(acc)
    ELSE IF ~IsFastaHeader(Head(ls)) THEN GenesLoop(Tail(ls), acc)
    ELSE LET parts == Words(Strip(DropFirst(Head(ls), 1)))
         IN  IF parts = <<>> THEN Raise("IndexError")
             ELSE GenesLoop(Tail(ls), acc \cup {parts[1]})

parse_fasta_file(file) ==
    IF ~file.exists THEN Ok({}) ELSE GenesLoop(file.lines, {})

\* consensus_df['accession'].map(protein_to_gene).fillna(consensus_df['accession'])
MapAccessions(acc, d) ==
    [i \in 1..Len(acc) |-> IF acc[i] \in DOMAIN d THEN d[acc[i]] ELSE acc[i]]

\* the lines of a FASTA file
P1 == <<"p1">>
P2 == <<"p2">>
FastaHeaderLine(words) == <<">">> \o Join(words, SP)
FastaLines ==
    { <<"MKV">>,
      <<">">>,
      FastaHeaderLine(<<P1>>),
      FastaHeaderLine(<<P1, GENE_ATTR \o GENE1>>),
      FastaHeaderLine(<<P2, X, GENE_ATTR \o GENE2, GENE_ATTR \o GENE1>>),
      FastaHeaderLine(<<P2, GENE_ATTR>>),
      <<">", SP>> \o FastaHeaderLine(<<P2>>) }
Accessions == {P1, P2}

InitFasta ==
    /\ pc = "writing"
    /\ raised = "none"
    /\ fasta = [exists |-> TRUE, lines |-> <<>>]
    /\ protein_to_gene = <<>>
    /\ genes = {}
    /\ \E n \in 1..MaxAccessions : accession \in [1..n -> Accessions]
    /\ gene_id = <<>>
    /\ OverlapIdle /\ FilterIdle /\ ParseIdle /\ TermIdle /\ GeneIdle /\ ExcelIdle /\ RunIdle

\* one more line of the FASTA file
AppendFastaLine(line) ==
    /\ pc = "writing"
    /\ Len(fasta.lines) < MaxFastaLines
    /\ fasta' = [fasta EXCEPT !.lines = Append(@, line)]
    /\ UNCHANGED <<pc, raised, protein_to_gene, genes, accession, gene_id, runVars,
                   overlapVars, filterVars, parseVars, termVars, geneVars, excelVars>>

\* create_consensus_filtering: protein_to_gene = parse_fasta_for_gene_mapping(fasta_path)
ParseFastaForGeneMapping ==
    /\ pc = "writing"
    /\ LET o == parse_fasta_for_gene_mapping(fasta)
       IN  /\ raised' = o.exc
           /\ protein_to_gene' = IF o.exc = "none" THEN o.value ELSE protein_to_gene
           /\ pc' = IF o.exc = "none" THEN "mapped" ELSE "raised"
    /\ UNCHANGED <<fasta, genes, accession, gene_id, runVars,
                   overlapVars, filterVars, parseVars, termVars, geneVars, excelVars>>

\* create_consensus_filtering: the gene_id column, when the mapping is not empty
ApplyMapping ==
    /\ pc = "mapped"
    /\ gene_id' = IF DOMAIN protein_to_gene # {}
                  THEN MapAccessions(accession, protein_to_gene)
                  ELSE gene_id
    /\ pc' = "done"
    /\ UNCHANGED <<raised, fasta, protein_to_gene, genes, accession, runVars,
                   overlapVars, filterVars, parseVars, termVars, geneVars, excelVars>>

\* analyze: all_genes = parse_fasta_file(args.fasta)
ParseFastaFile ==
    /\ pc = "writing"
    /\ LET o == parse_fasta_file(fasta)
       IN  /\ raised' = o.exc
           /\ genes' = IF o.exc = "none" THEN o.value ELSE genes
           /\ pc' = IF o.exc = "none" THEN "listed" ELSE "raised"
    /\ UNCHANGED <<fasta, protein_to_gene, accession, gene_id, runVars,
                   overlapVars, filterVars, parseVars, termVars, geneVars, excelVars>>

NextFasta ==
    \/ \E line \in FastaLines : AppendFastaLine(line)
    \/ ParseFastaForGeneMapping
    \/ ApplyMapping
    \/ ParseFastaFile

SpecFasta == InitFasta /\ [][NextFasta]_vars

\* the header lines of the file that hold a word, and their first words
NamedHeaders ==
    {k \in 1..Len(fasta.lines) :
        IsFastaHeader(fasta.lines[k]) /\ Words(Tail(fasta.lines[k])) # <<>>}
FirstWord(k) == Words(Tail(fasta.lines[k]))[1]
FirstWords == {FirstWord(k) : k \in NamedHeaders}

\* C27: for every sequence of lines of an existing FASTA file, whatever
\* follows '>' on a header line, parse_fasta_for_gene_mapping and
\* parse_fasta_file complete without raising and return a mapping (a set)
\* keyed by the first word of each header line.
C27_FastaReadersNeverRaise ==
    (pc \in {"mapped", "listed", "raised"}) =>
        /\ raised = "none"
        /\ pc = "mapped" => DOMAIN protein_to_gene = FirstWords
        /\ pc = "listed" => genes = FirstWords

\* the header line of accession a (the last one when it is repeated), 0
\* without one, and the value of its first gene= attribute
HeaderOfAccession(a) ==
    LET hs == {k \in NamedHeaders : FirstWord(k) = a}
    IN  IF hs = {} THEN 0 ELSE CHOOSE k \in hs : \A j \in hs : j <= k
GeneAttributes(k) ==
    LET ws == Words(Tail(fasta.lines[k]))
    IN  SelectSeq(ws, LAMBDA w : StartsWith(w, <<"gene", "=">>))
AttributeValue(k) == DropFirst(GeneAttributes(k)[1], 2)
HasUsableAttribute(a) ==
    /\ HeaderOfAccession(a) # 0
    /\ GeneAttributes(HeaderOfAccession(a)) # <<>>
    /\ AttributeValue(HeaderOfAccession(a)) # <<>>

\* C26: when the remapping is applied, the gene_id of every row of the
\* consensus subset is the value of the gene= attribute in the header line
\* of the row's accession, and the accession itself, never an empty value,
\* when the file has no mapping for it (no header, or a header without a
\* usable gene= attribute).
C26_GeneIdRemapped ==
    (pc = "done" /\ gene_id # <<>>) =>
        \A i \in 1..Len(accession) :
            /\ gene_id[i] # <<>>
            /\ gene_id[i] = IF HasUsableAttribute(accession[i])
                            THEN AttributeValue(HeaderOfAccession(accession[i]))
                            ELSE accession[i]

(***************************************************************************)
(*                        Pipeline                                         *)
(*  One sample's FANTASIA table through the three scripts in order:        *)
(*  process_fantasia of the Excel generator, main of the FANTASIA filter   *)
(*  (thresholds, Task A, Task B) on the same Excel directory, and          *)
(*  analyze_fantasia_models of the analysis.                               *)
(***************************************************************************)
MaxPipelineRows == 2

\* process_fantasia: models
Models == <<"ESM_L0", "Prot-T5_L0", "Prost-T5_L0", "Ankh3-Large_L0", "ESM3c_L0">>

\* FantasiaParser.MODEL_NAMES
MODEL_NAMES ==
    ("ESM_L0" :> "ESM-2" @@ "Prot-T5_L0" :> "ProtT5" @@ "Prost-T5_L0" :> "ProstT5"
     @@ "Ankh3-Large_L0" :> "Ankh3-Large" @@ "ESM3c_L0" :> "ESM3c")

\* FantasiaParser.MODEL_NAMES.get(model_suffix, model_suffix)
ModelNameOf(suffix) ==
    IF suffix \in DOMAIN MODEL_NAMES THEN MODEL_NAMES[suffix] ELSE suffix

\* MODEL_NAME_MAPPING: its keys in the order of the dict, and the dict
MappingKeys == <<"ESM-2", "ProtT5", "ProstT5", "Ankh3-Large", "ESM3c">>
\* the mapping with the columns of two models exchanged
MODEL_NAME_MAPPING_Crossed ==
    ("ESM-2" :> "Prot-T5_L0" @@ "ProtT5" :> "ESM_L0" @@ "ProstT5" :> "Prost-T5_L0"
     @@ "Ankh3-Large" :> "Ankh3-Large_L0" @@ "ESM3c" :> "ESM3c_L0")
MODEL_NAME_MAPPING ==
    ("ESM-2" :> "ESM_L0" @@ "ProtT5" :> "Prot-T5_L0" @@ "ProstT5" :> "Prost-T5_L0"
     @@ "Ankh3-Large" :> "Ankh3-Large_L0" @@ "ESM3c" :> "ESM3c_L0")

\* analyze_fantasia_models: models
AnalysisModels == <<"ESM-2", "ProtT5", "ProstT5", "Ankh3-Large", "ESM3c">>

\* File names, as sequences of pieces.
\* f"{basename}_fantasia_{model_name}_per_term.xlsx" and the others
SAMPLE == "s"
PER_TERM == <<"_", "per_term", ".xlsx">>
PER_TERM_FILTERED == <<"_", "per_term", "_filtered", ".xlsx">>
PerTermFile(basename, model_name) == <<basename, "_fantasia_", model_name>> \o PER_TERM
PerGeneFile(basename, model_name) ==
    <<basename, "_fantasia_", model_name, "_", "per_gene", ".xlsx">>
PerGeneFilteredFile(sample_prefix, model) ==
    <<sample_prefix, "_fantasia_", model, "_", "per_gene", "_filtered", ".xlsx">>
CONSENSUS_CSV  == <<"fantasia_consensus_majority", ".csv">>
CONSENSUS_XLSX == <<"fantasia_consensus_majority", ".xlsx">>

\* s.endswith(suffix); sub in s
EndsWith(s, suffix) ==
    /\ Len(s) >= Len(suffix)
    /\ SubSeq(s, Len(s) - Len(suffix) + 1, Len(s)) = suffix
HasSub(s, sub) ==
    \E i \in 1..(Len(s) - Len(sub) + 1) : SubSeq(s, i, i + Len(sub) - 1) = sub

\* s.replace(old, new)
RECURSIVE ReplaceSub(_, _, _)
ReplaceSub(s, old, new) ==
    IF Len(s) < Len(old) THEN s
    ELSE IF StartsWith(s, old) THEN new \o ReplaceSub(DropFirst(s, Len(old)), old, new)
    ELSE <<Head(s)>> \o ReplaceSub(Tail(s), old, new)

\* Path(excel_dir).glob('*_fantasia_*_per_term.xlsx')
MatchesPerTerm(name) ==
    /\ EndsWith(name, PER_TERM)
    /\ \E i \in 1..(Len(name) - Len(PER_TERM)) : name[i] = "_fantasia_"

\* the first key of MODEL_NAME_MAPPING with f'_fantasia_{key}_' in filename
DetectModel(filename) ==
    LET hits == {k \in 1..Len(MappingKeys) :
                    HasSub(filename, <<"_fantasia_", MappingKeys[k], "_">>)}
    IN  IF hits = {} THEN None
        ELSE MappingKeys[CHOOSE k \in hits : \A j \in hits : k <= j]

\* threshold_col = f'final_score_{MODEL_NAME_MAPPING[model_name]}'
ThresholdCol(model_name) == "final_score_" \o MODEL_NAME_MAPPING[model_name]

\* filename.replace('_per_term.xlsx', '_per_term_filtered.xlsx')
OutputFilename(filename) == ReplaceSub(filename, PER_TERM, PER_TERM_FILTERED)

\* The score texts of the table and the numbers they read as.
ScoreTexts == {<<>>, <<"0">>, <<"2">>, <<"6">>}
ProtScoreTexts == {<<>>, <<"6">>}
NumberOf == (<<"0">> :> 0 @@ <<"2">> :> 2 @@ <<"6">> :> 6)

\* a cell as pd.read_csv and pd.read_excel followed by pd.to_numeric read
\* it: NaN for an NA text, the number of a numeric text, a text otherwise
ReadCell(t) ==
    IF t \in NaValues THEN NaN
    ELSE IF t \in DOMAIN NumberOf THEN Num(NumberOf[t])
    ELSE Str

\* the name of a column, the pieces of the header field put together
RECURSIVE AsString(_)
AsString(field) == IF field = <<>> THEN "" ELSE Head(field) \o AsString(Tail(field))

\* pd.read_csv(args.summary, sep='\t'): the score columns of the table
ReadSummary(lines) ==
    LET header == Split(lines[1], TAB)
        cols   == {c \in 1..Len(header) : AsString(header[c]) \in ModelColumnSet}
        names  == {AsString(header[c]) : c \in cols}
        At(name) == CHOOSE c \in cols : AsString(header[c]) = name
    IN  [columns |-> names,
         rows    |-> [i \in 1..(Len(lines) - 1) |->
                        [name \in names |-> ReadCell(Split(lines[i + 1], TAB)[At(name)])]]]

\* pd.read_excel of a per-term file: the table with its final_score cells
ReadPerTerm(table) ==
    [has_score |-> \A i \in 1..Len(table) : "final_score" \in DOMAIN table[i],
     rows      |-> [i \in 1..Len(table) |->
                      IF "final_score" \in DOMAIN table[i]
                      THEN [table[i] EXCEPT !.final_score = ReadCell(@)]
                      ELSE table[i]]]

\* process_fantasia, the loop over the models for one results file
RECURSIVE GenerateLoop(_, _, _, _)
GenerateLoop(dir, lines, basename, m) ==
    IF m > Len(Models) THEN dir
    ELSE LET model_suffix_ == Models[m]
             model_name == ModelNameOf(model_suffix_)
             res == ParseText(FantasiaParser, model_suffix_, lines)
             per_gene_df == FantasiaPerGene(res)
             with_term == SetItem(dir, PerTermFile(basename, model_name), res)
         IN  GenerateLoop(
                 IF res = <<>> THEN dir
                 ELSE IF per_gene_df = <<>> THEN with_term
                 ELSE SetItem(with_term, PerGeneFile(basename, model_name), per_gene_df),
                 lines, basename, m + 1)

\* process_individual_excel_files: the files that reach filter_excel_file
\* and the files it writes
TaskAFiles(dir, thr) ==
    {n \in DOMAIN dir :
        /\ MatchesPerTerm(n)
        /\ DetectModel(n) # None
        /\ ThresholdCol(DetectModel(n)) \in DOMAIN thr}
TaskAFiltered(dir, thr, n) ==
    filter_excel_file(ReadPerTerm(dir[n]), thr[ThresholdCol(DetectModel(n))])
process_individual_excel_files(dir, thr) ==
    LET done == {n \in TaskAFiles(dir, thr) : TaskAFiltered(dir, thr, n).written}
        outs == {OutputFilename(n) : n \in done}
    IN  [o \in DOMAIN dir \cup outs |->
            IF o \in outs
            THEN TaskAFiltered(dir, thr, CHOOSE n \in done : OutputFilename(n) = o).rows
            ELSE dir[o]]

\* analyze_fantasia_models
analyze_fantasia_models(dir, sample_prefix) ==
    LET Pre(model) ==
            IF PerGeneFile(sample_prefix, model) \in DOMAIN dir
            THEN CountFantasia(dir[PerGeneFile(sample_prefix, model)])
            ELSE {}
        Post(model) ==
            IF PerGeneFilteredFile(sample_prefix, model) \in DOMAIN dir
            THEN CountFantasia(dir[PerGeneFilteredFile(sample_prefix, model)])
            ELSE Pre(model)
        names == {AnalysisModels[m] : m \in 1..Len(AnalysisModels)}
    IN  [pre_filtering  |-> [model \in names |-> Pre(model)],
         post_filtering |-> [model \in names |-> Post(model)]]

\* The sample's wide FANTASIA table: the results file the Excel generator
\* reads and the summary the filter is given.
PipelineHeader ==
    Row(<<(<<"accession">>), <<"go_id">>, <<"term_count">>,
          ScoreCol(ESM), ScoreCol(PROT), <<"proteins">>>>)
PipelineRow(gene, esm, prot) == Row(<<gene, GO1, <<"3">>, esm, prot, X>>)
PipelineRows ==
    {PipelineRow(g, e, p) : g \in {GENE1, GENE2}, e \in ScoreTexts, p \in ProtScoreTexts}

\* per-term files found in the Excel directory that this run did not write:
\* one of no known model, one of a model the summary has no column for
StrayTable ==
    <<[gene |-> GENE1, GO |-> GO1, term_count |-> <<"3">>, final_score |-> <<"6">>]>>
StrayFiles == {PerTermFile(SAMPLE, "Other"), PerTermFile(SAMPLE, "ESM3c")}

InitPipeline ==
    /\ pc = "writing"
    /\ raised = "none"
    /\ fantasia_tsv = <<PipelineHeader>>
    /\ \E S \in SUBSET StrayFiles : excel_dir = [n \in S |-> StrayTable]
    /\ summary_df = [columns |-> {}, rows |-> <<>>]
    /\ thresholds = <<>>
    /\ consensus_vote = <<>>
    /\ consensus_df = <<>>
    /\ task_a = {}
    /\ fantasia_results = [pre_filtering |-> <<>>, post_filtering |-> <<>>]
    /\ OverlapIdle /\ ParseIdle /\ TermIdle /\ GeneIdle /\ ExcelIdle /\ FastaIdle /\ TreeIdle

\* FANTASIA writes one more row of the table
AppendFantasiaRow(line) ==
    /\ pc = "writing"
    /\ Len(fantasia_tsv) <= MaxPipelineRows
    /\ fantasia_tsv' = Append(fantasia_tsv, line)
    /\ UNCHANGED <<pc, raised, excel_dir, task_a, fantasia_results, tree, written,
                   filterVars, overlapVars, parseVars, termVars, geneVars, excelVars,
                   fastaVars>>

\* create_excel_outputs.py: process_fantasia(results_dir, output_dir)
GenerateFantasia ==
    /\ pc = "writing"
    /\ excel_dir' = GenerateLoop(excel_dir, fantasia_tsv, SAMPLE, 1)
    /\ pc' = "generated"
    /\ UNCHANGED <<raised, fantasia_tsv, task_a, fantasia_results, tree, written,
                   filterVars, overlapVars, parseVars, termVars, geneVars, excelVars,
                   fastaVars>>

\* filter main: summary_df = pd.read_csv(...); thresholds =
\* calculate_thresholds(summary_df); exit when there is none
LoadThresholds ==
    /\ pc = "generated"
    /\ summary_df' = ReadSummary(fantasia_tsv)
    /\ thresholds' = calculate_thresholds(ReadSummary(fantasia_tsv))
    /\ pc' = IF DOMAIN calculate_thresholds(ReadSummary(fantasia_tsv)) = {}
             THEN "exit" ELSE "thresholds"
    /\ UNCHANGED <<raised, consensus_vote, consensus_df, runVars,
                   overlapVars, parseVars, termVars, geneVars, excelVars, fastaVars>>

\* filter main, Task A: process_individual_excel_files(excel_dir, thresholds, output_dir)
TaskA ==
    /\ pc = "thresholds"
    /\ excel_dir' = process_individual_excel_files(excel_dir, thresholds)
    /\ task_a' = {[file |-> n, column |-> ThresholdCol(DetectModel(n))] :
                     n \in TaskAFiles(excel_dir, thresholds)}
    /\ pc' = "task_a"
    /\ UNCHANGED <<raised, fantasia_tsv, fantasia_results, tree, written,
                   filterVars, overlapVars, parseVars, termVars, geneVars, excelVars,
                   fastaVars>>

\* filter main, Task B: create_consensus_filtering(summary, thresholds, output_dir)
TaskB ==
    /\ pc = "task_a"
    /\ consensus_vote' = ConsensusVotes(summary_df, thresholds)
    /\ consensus_df' = MajorityRows(ConsensusVotes(summary_df, thresholds))
    /\ excel_dir' =
          LET kept == MajorityRows(ConsensusVotes(summary_df, thresholds))
              rows == [i \in 1..Len(kept) |-> summary_df.rows[kept[i]]]
          IN  SetItem(SetItem(excel_dir, CONSENSUS_CSV, rows), CONSENSUS_XLSX, rows)
    /\ pc' = "filtered"
    /\ UNCHANGED <<raised, summary_df, thresholds, fantasia_tsv, task_a, fantasia_results,
                   tree, written, overlapVars, parseVars, termVars, geneVars, excelVars,
                   fastaVars>>

\* analysis main: fantasia_results = analyze_fantasia_models(args.excel_dir, args.sample)
AnalyzeFantasiaModels ==
    /\ pc = "filtered"
    /\ fantasia_results' = analyze_fantasia_models(excel_dir, SAMPLE)
    /\ pc' = "analyzed"
    /\ UNCHANGED <<raised, fantasia_tsv, excel_dir, task_a, tree, written,
                   filterVars, overlapVars, parseVars, termVars, geneVars, excelVars,
                   fastaVars>>

NextPipeline ==
    \/ \E line \in PipelineRows : AppendFantasiaRow(line)
    \/ GenerateFantasia
    \/ LoadThresholds
    \/ TaskA
    \/ TaskB
    \/ AnalyzeFantasiaModels

SpecPipeline == InitPipeline /\ [][NextPipeline]_vars

\* the score column of a model and the files of the sample for it
ColumnOf(suffix) == "final_score_" \o suffix
SampleFile(suffix) == PerTermFile(SAMPLE, ModelNameOf(suffix))
FilteredFile(suffix) ==
    <<SAMPLE, "_fantasia_", ModelNameOf(suffix)>> \o PER_TERM_FILTERED
ModelSet == {Models[m] : m \in 1..Len(Models)}
FilterRan == pc \in {"filtered", "analyzed"}

\* a score that is zero or missing, once coerced to a number
ZeroOrMissing(c) == ToNumeric(c).k # "num" \/ ToNumeric(c).v = 0

\* the summary with its zero scores blanked
WithoutZeros(df) ==
    [df EXCEPT !.rows =
        [i \in 1..Len(df.rows) |->
            [c \in DOMAIN df.rows[i] |->
                IF ZeroOrMissing(df.rows[i][c]) THEN NaN ELSE df.rows[i][c]]]]

\* the models whose threshold is positive and whose score row i lacks
NoVoteFrom(i) ==
    {c \in DOMAIN thresholds :
        thresholds[c] > 0 /\ ZeroOrMissing(summary_df.rows[i][c])}

\* C28: zero and missing scores are left out of a model's threshold
\* computation but are compared with the threshold when filtering and
\* voting: whenever the threshold of a model is positive, a row whose score
\* for it is zero or missing gets no vote from the model and is not in the
\* model's filtered per-term output.
C28_ZeroAndMissingFail ==
    FilterRan =>
        /\ thresholds = calculate_thresholds(WithoutZeros(summary_df))
        /\ \A i \in 1..Len(summary_df.rows) :
              consensus_vote[i] <=
                  Cardinality(DOMAIN thresholds) - Cardinality(NoVoteFrom(i))
        /\ \A s \in ModelSet :
              (/\ ColumnOf(s) \in DOMAIN thresholds
               /\ thresholds[ColumnOf(s)] > 0
               /\ FilteredFile(s) \in DOMAIN excel_dir)
              => \A j \in 1..Len(excel_dir[FilteredFile(s)]) :
                    ~ZeroOrMissing(excel_dir[FilteredFile(s)][j].final_score)

\* C28 witness: both thresholds positive, a row with a zero ESM_L0 score and
\* no Prot-T5_L0 score gets no vote and is removed from the ESM-2 output
C28_Witness ==
    /\ pc = "filtered"
    /\ fantasia_tsv = << PipelineHeader,
                         PipelineRow(GENE1, <<"0">>, <<>>),
                         PipelineRow(GENE2, <<"6">>, <<"6">>) >>
    /\ thresholds[ColumnOf(ESM)] > 0 /\ thresholds[ColumnOf(PROT)] > 0
    /\ consensus_vote = <<0, 2>>
    /\ Len(excel_dir[SampleFile(ESM)]) = 2
    /\ Len(excel_dir[FilteredFile(ESM)]) = 1

\* the genes that keep a per-term row of the model at or above its
\* threshold
KeptGenes(s) ==
    IF SampleFile(s) \notin DOMAIN excel_dir THEN {}
    ELSE LET rows == excel_dir[SampleFile(s)]
         IN  {rows[j].gene : j \in {k \in 1..Len(rows) :
                 /\ ReadCell(rows[k].final_score).k = "num"
                 /\ 4 * ReadCell(rows[k].final_score).v >= thresholds[ColumnOf(s)]}}

\* C29: with the three steps run in order, the post-filtering gene set the
\* analysis reports for a model is the set of genes that keep at least one
\* per-term row with final_score >= the model's threshold, so a gene whose
\* rows were all removed is in the pre-filtering set only.
C29_PostFilteringSet ==
    pc = "analyzed" =>
        \A s \in ModelSet :
            ColumnOf(s) \in DOMAIN thresholds =>
                fantasia_results.post_filtering[ModelNameOf(s)] = KeptGenes(s)

\* the rows of a per-term file at or above a threshold
RowsAtLeast(table, thr) ==
    SelectSeq(ReadPerTerm(table).rows,
              LAMBDA r : r.final_score.k = "num" /\ 4 * r.final_score.v >= thr)

\* C30: Task A filters each per-model per-term file with the threshold of
\* that model's own score column: for each of the five suffixes s the label
\* MODEL_NAMES[s] maps back through MODEL_NAME_MAPPING to s, the file
\* *_fantasia_<label>_per_term.xlsx is filtered with
\* thresholds['final_score_' + s] and no other, and a file whose model is
\* not known or has no threshold is skipped, no filtered file written.
C30_OwnThreshold ==
    /\ \A s \in ModelSet :
          /\ ModelNameOf(s) \in DOMAIN MODEL_NAME_MAPPING
          /\ MODEL_NAME_MAPPING[ModelNameOf(s)] = s
    /\ pc \in {"task_a", "filtered", "analyzed"} =>
        /\ \A s \in ModelSet :
              SampleFile(s) \in DOMAIN excel_dir =>
                 IF ColumnOf(s) \in DOMAIN thresholds
                 THEN /\ \A e \in task_a :
                            e.file = SampleFile(s) => e.column = ColumnOf(s)
                      /\ \E e \in task_a : e.file = SampleFile(s)
                      /\ LET kept == RowsAtLeast(excel_dir[SampleFile(s)],
                                                 thresholds[ColumnOf(s)])
                         IN  IF kept = <<>>
                             THEN FilteredFile(s) \notin DOMAIN excel_dir
                             ELSE /\ FilteredFile(s) \in DOMAIN excel_dir
                                  /\ excel_dir[FilteredFile(s)] = kept
                 ELSE /\ \A e \in task_a : e.file # SampleFile(s)
                      /\ FilteredFile(s) \notin DOMAIN excel_dir
        /\ \A n \in DOMAIN excel_dir :
              (MatchesPerTerm(n) /\ \A s \in ModelSet : n # SampleFile(s)) =>
                 /\ \A e \in task_a : e.file # n
                 /\ OutputFilename(n) \notin DOMAIN excel_dir

\* C30 witness: the files of two models filtered, each with its own
\* threshold, beside a file of no known model and one without threshold
C30_Witness ==
    /\ pc = "task_a"
    /\ StrayFiles \subseteq DOMAIN excel_dir
    /\ [file |-> SampleFile(ESM), column |-> ColumnOf(ESM)] \in task_a
    /\ [file |-> SampleFile(PROT), column |-> ColumnOf(PROT)] \in task_a
    /\ thresholds[ColumnOf(ESM)] # thresholds[ColumnOf(PROT)]
    /\ FilteredFile(ESM) \in DOMAIN excel_dir
    /\ Len(excel_dir[FilteredFile(ESM)]) < Len(excel_dir[SampleFile(ESM)])

(***************************************************************************)
(*  SpecRun: one run of main of the Excel generator over a results root.   *)
(*  The run is given no --<tool>-only flag, so main calls the four         *)
(*  process_* functions in order.                                          *)
(*  A file of the root is its directory below the root, its name as a      *)
(*  sequence of pieces, and what its parser finds in it: "full" (records   *)
(*  with terms), "bare" (records without any term) or "empty".             *)
(***************************************************************************)
\* the files a results root may hold, in the order of their paths
RootFiles ==
    << [dir |-> <<"eggnog", "v5">>,      name |-> <<"s2", ".emapper.annotations">>, content |-> "bare"],
       [dir |-> <<"eggnog", "v5", "a">>, name |-> <<"s1", ".emapper.annotations">>, content |-> "full"],
       [dir |-> <<"eggnog", "v5", "b">>, name |-> <<"s1", ".emapper.annotations">>, content |-> "full"],
       [dir |-> <<"eggnog7">>,           name |-> <<"s1", ".eggnog.tsv.gz">>,       content |-> "full"],
       [dir |-> <<"fantasia">>,          name |-> <<"s1", ".tsv">>,                 content |-> "full"],
       [dir |-> <<"interproscan">>,      name |-> <<"notes", ".txt">>,              content |-> "full"],
       [dir |-> <<"interproscan">>,      name |-> <<"s1", ".tsv">>,                 content |-> "full"],
       [dir |-> <<"interproscan">>,      name |-> <<"s2", ".tsv">>,                 content |-> "empty"],
       [dir |-> <<"kofamscan">>,         name |-> <<"s1", "_kofam_mapper.tsv">>,    content |-> "full"] >>

\* the pieces of a name joined into the string they spell
RECURSIVE Spell(_)
Spell(pieces) == IF pieces = <<>> THEN "" ELSE Head(pieces) \o Spell(Tail(pieces))

\* find_files(directory, pattern): the files directly in the directory whose
\* name ends with the pattern's suffix, sorted by path
find_files(files, directory, suffix) ==
    SelectSeq(RootFiles, LAMBDA f : /\ f \in files
                                    /\ f.dir = directory
                                    /\ EndsWith(f.name, suffix))

\* os.walk(eggnog_v5_dir): the files at any depth under eggnog/v5 whose name
\* ends with '.emapper.annotations'
walk_v5(files) ==
    SelectSeq(RootFiles, LAMBDA f : /\ f \in files
                                    /\ StartsWith(f.dir, <<"eggnog", "v5">>)
                                    /\ EndsWith(f.name, <<".emapper.annotations">>))

\* os.path.basename(path).replace(suffix, '')
Basename(f, suffix) == Spell(ReplaceSub(f.name, suffix, <<>>))

\* the paths one input file makes a tool's loop body write: the table saved
\* by save_to_excel (nothing when there are no records) and the derived
\* table (nothing when it is empty)
SavedThenDerived(f, suffix, saved, derived, bare_derived) ==
    LET basename == Basename(f, suffix)
    IN  (IF f.content = "empty" THEN <<>> ELSE <<basename \o saved>>)
        \o (IF f.content = "full" \/ (bare_derived /\ f.content = "bare")
            THEN <<basename \o derived>> ELSE <<>>)

RECURSIVE WriteAll(_, _, _, _, _)
WriteAll(fs, suffix, saved, derived, bare_derived) ==
    IF fs = <<>> THEN <<>>
    ELSE SavedThenDerived(Head(fs), suffix, saved, derived, bare_derived)
         \o WriteAll(Tail(fs), suffix, saved, derived, bare_derived)

\* process_kofamscan: per-term saved, per-gene derived
kofamscan_outputs(files) ==
    WriteAll(find_files(files, <<"kofamscan">>, <<"_kofam_mapper.tsv">>),
             <<"_kofam_mapper.tsv">>,
             "_kofamscan_per_term.xlsx", "_kofamscan_per_gene.xlsx", TRUE)

\* process_interproscan: per-term saved, per-gene derived
interproscan_outputs(files) ==
    WriteAll(find_files(files, <<"interproscan">>, <<".tsv">>), <<".tsv">>,
             "_interproscan_per_term.xlsx", "_interproscan_per_gene.xlsx", TRUE)

\* process_eggnog: v5 then v7; per-gene saved, per-term derived from the
\* terms of the records
eggnog_outputs(files) ==
    WriteAll(walk_v5(files), <<".emapper.annotations">>,
             "_eggnog_v5_per_gene.xlsx", "_eggnog_v5_per_term.xlsx", FALSE)
    \o WriteAll(find_files(files, <<"eggnog7">>, <<".eggnog.tsv.gz">>),
                <<".eggnog.tsv.gz">>,
                "_eggnog_v7_per_gene.xlsx", "_eggnog_v7_per_term.xlsx", FALSE)

\* process_fantasia: for each file, for each model with results, per-term
\* and per-gene
RECURSIVE ModelLoop(_, _)
ModelLoop(f, k) ==
    IF k > Len(Models) THEN <<>>
    ELSE LET model_name == ModelNameOf(Models[k])
             basename   == Basename(f, <<".tsv">>)
         IN  (IF f.content = "empty" THEN <<>>
              ELSE << basename \o "_fantasia_" \o model_name \o "_per_term.xlsx",
                      basename \o "_fantasia_" \o model_name \o "_per_gene.xlsx" >>)
             \o ModelLoop(f, k + 1)

RECURSIVE FileLoop(_)
FileLoop(fs) ==
    IF fs = <<>> THEN <<>> ELSE ModelLoop(Head(fs), 1) \o FileLoop(Tail(fs))

fantasia_outputs(files) == FileLoop(find_files(files, <<"fantasia">>, <<".tsv">>))

InitRun ==
    /\ pc = "root"
    /\ raised = "none"
    /\ tree = {}
    /\ written = <<>>
    /\ OverlapIdle /\ FilterIdle /\ ParseIdle /\ TermIdle /\ GeneIdle /\ ExcelIdle
    /\ FastaIdle /\ PipeIdle

runRest == <<raised, overlapVars, filterVars, parseVars, termVars, geneVars, excelVars,
             fastaVars, fantasia_tsv, excel_dir, task_a, fantasia_results>>

\* a tool leaves one more file under the results root before the run
AddFile ==
    /\ pc = "root"
    /\ \E k \in 1..Len(RootFiles) :
          /\ RootFiles[k] \notin tree
          /\ tree' = tree \cup {RootFiles[k]}
    /\ UNCHANGED <<pc, written, runRest>>

\* main: process_kofamscan(results_dir, output_dir)
RunKofamScan ==
    /\ pc = "root"
    /\ written' = written \o kofamscan_outputs(tree)
    /\ pc' = "interproscan"
    /\ UNCHANGED <<tree, runRest>>

\* main: process_interproscan(results_dir, output_dir)
RunInterProScan ==
    /\ pc = "interproscan"
    /\ written' = written \o interproscan_outputs(tree)
    /\ pc' = "eggnog"
    /\ UNCHANGED <<tree, runRest>>

\* main: process_eggnog(results_dir, output_dir)
RunEggNOG ==
    /\ pc = "eggnog"
    /\ written' = written \o eggnog_outputs(tree)
    /\ pc' = "fantasia"
    /\ UNCHANGED <<tree, runRest>>

\* main: process_fantasia(results_dir, output_dir)
RunFantasia ==
    /\ pc = "fantasia"
    /\ written' = written \o fantasia_outputs(tree)
    /\ pc' = "done"
    /\ UNCHANGED <<tree, runRest>>

NextRun == AddFile \/ RunKofamScan \/ RunInterProScan \/ RunEggNOG \/ RunFantasia

SpecRun == InitRun /\ [][NextRun]_vars

\* C21: within one run of the Excel generator, whatever input files are
\* found under the results root (EggNOG v5 annotation files in different
\* subdirectories included), every output path is written at most once: no
\* two positions of the sequence of writes hold the same path.
C21_WrittenOnce ==
    \A i, j \in 1..Len(written) : written[i] = written[j] => i = j

=============================================================================
